---- MODULE Spec2Model ----
(***************************************************************************)
(* Verification model of the Sui-DAT training platform.                    *)
(*                                                                         *)
(*  Part I   backend: run_training (database-polling worker) and the       *)
(*           pause / resume / stop endpoints of routers/train.py and       *)
(*           routers/local_training.py, which share one document store.    *)
(*  Part II  frontend: the in-memory routers (training.py,                 *)
(*           local_training.py) and their thread workers.                  *)
(*  Part III ai/aggregator.py: the federated averaging functions, over     *)
(*           exact rational arithmetic and an explicit array heap.         *)
(*  Part IV  ai/gradient_utils.py: the byte format of a gradient mapping   *)
(*           (length prefix, JSON metadata, element bytes).                *)
(*  Part V   services/training_service.py: concurrent submit_gradient      *)
(*           calls on one session under the session's lock.                *)
(*  Part VI  ai/models/tiny_cnn.py: forward and backward of the dense      *)
(*           network, over exact rational arithmetic.                      *)
(***************************************************************************)
EXTENDS Integers, Sequences, FiniteSets, TLC

VARIABLES
    \* ---- Part I: backend ----
    connected,      \* database_instance.connected (mongo.py)
    session,        \* the training_sessions document of the session
    model,          \* the models document created by /start
    start,          \* position of the POST /start handler
    worker,         \* run_training: position and locals
    req,            \* positions of the pause / resume / stop handlers
    response,       \* the last HTTP response sent: [op, code]
    halted,         \* history: after setting 'training' the worker has read a
                    \* status other than 'training'/'paused', or no session
    \* ---- Part II: frontend ----
    sessions,       \* the entry of the session in the in-memory map `sessions`
    fe_worker,      \* run_training / run_local_training thread: position, locals
    fe_connected,   \* is_connected() as seen by the frontend process
    fe_mongo,       \* the training_sessions document the frontend writes to
    \* ---- Part III: aggregator ----
    heap,           \* the arrays that exist: heap[id] is the array object id
    gradients_list, \* the contributors' mappings: key -> array id (0: no key)
    previous_velocity, \* the caller's previous_velocity: [none, map]
    call,           \* the aggregation call made: function and scalar arguments
    result,         \* what the call returned: [raised, out, velocity]
    \* ---- Part IV: gradient_utils ----
    gradients,      \* the mapping handed to convert_gradients_to_bytes
    blob,           \* the bytes convert_gradients_to_bytes returned
    restored,       \* what convert_bytes_to_gradients returned: [raised, map]
    ser_pc,         \* which of the two conversions have been called
    \* ---- Part V: TrainingService ----
    active_sessions, \* the entry of the session: [present, threshold, status,
                     \* logs, result, error, end_time]
    session_gradients, \* session["gradients"]: the pending submissions
    session_locks,  \* the session's asyncio.Lock: the call holding it, or 0
    submit,         \* the submit_gradient calls: position and locals of each
    applied,        \* history: the lists handed to trainer.apply_gradients
    \* ---- Part VI: TinyCNN ----
    cnn             \* the model object and one training step on it: weights,
                    \* biases, the batch, forward's output, backward's result

backend_vars == <<connected, session, model, start, worker, req, response, halted>>

frontend_vars == <<sessions, fe_worker, fe_connected, fe_mongo>>

agg_vars == <<heap, gradients_list, previous_velocity, call, result>>

ser_vars == <<gradients, blob, restored, ser_pc>>

ts_vars == <<active_sessions, session_gradients, session_locks, submit, applied>>

cnn_vars == <<cnn>>

not_backend == <<frontend_vars, agg_vars, ser_vars, ts_vars, cnn_vars>>

not_frontend == <<connected, session, model, start, worker, req, halted, agg_vars,
                  ser_vars, ts_vars, cnn_vars>>

not_agg == <<backend_vars, frontend_vars, ser_vars, ts_vars, cnn_vars>>

not_ser == <<backend_vars, frontend_vars, agg_vars, ts_vars, cnn_vars>>

not_ts == <<backend_vars, frontend_vars, agg_vars, ser_vars, cnn_vars>>

not_cnn == <<backend_vars, frontend_vars, agg_vars, ser_vars, ts_vars>>

vars == <<backend_vars, frontend_vars, agg_vars, ser_vars, ts_vars, cnn_vars>>

(***************************************************************************)
(* Bounds of the model.                                                    *)
(***************************************************************************)
MaxEpochs == 2          \* epochs requested by /start range over 0..MaxEpochs
MaxContrib == 3         \* longest gradients_list handed to an aggregation
NumSamples == 4         \* stands for num_samples (1000 in the code)
MaxSubmit == 4          \* submit_gradient calls made on the session
MaxBatch == 2           \* most samples of a batch handed to forward / backward
MaxLogs == 4            \* most log entries of a TrainingService session
BatchSizes == {0, 2, 3} \* batch sizes a /start request may carry

(***************************************************************************)
(* Part I.  The document store (services/mongodb_service.py).              *)
(***************************************************************************)
NoProgress == [epoch |-> 0, batch |-> 0, totalBatches |-> 0, percentage |-> <<0, 1>>]

\* progress_pct * 100 as the fraction <<numerator, denominator>>
\* (local_training.py 130 and 137; frontend training.py 148)
progress_pct(epoch, total_batches, batch_index, epochs) ==
    <<(epoch * total_batches + batch_index) * 100, epochs * total_batches>>

NoDocument ==
    [present |-> FALSE, status |-> "none", error |-> "", progress |-> NoProgress,
     epochMetrics |-> <<>>, result |-> FALSE, stats |-> 0]

\* TrainingSession(status="preparing", ...) as stored by create_training_session
NewSession == [NoDocument EXCEPT !.present = TRUE, !.status = "preparing"]

\* get_training_session: the document, or None when it is absent or when
\* get_collection raises because the store is not connected
get_training_session(conn, doc) ==
    IF conn /\ doc.present THEN doc ELSE NoDocument

\* update_one({"id": session_id}, {"$set": update_data}): only the fields
\* named in update_data are written; nothing is written when the document
\* is absent or the store is not connected (the exception is swallowed)
update_training_session(conn, doc, fields) ==
    IF conn /\ doc.present
    THEN [f \in DOMAIN doc |-> IF f \in DOMAIN fields THEN fields[f] ELSE doc[f]]
    ELSE doc

(***************************************************************************)
(* Part II records: the map entry created by the frontend's /start and    *)
(* the locals of its worker thread (defined here for use in Init).         *)
(***************************************************************************)
NoEntry ==
    [present |-> FALSE, status |-> "none", progress |-> NoProgress,
     epoch_metrics |-> <<>>, result |-> FALSE, error |-> ""]

IdleThread ==
    [pc |-> "idle", kind |-> "none", use_mongodb |-> FALSE, epochs |-> 0,
     batch_size |-> 0, epoch |-> 0, i |-> 0, batches |-> 0, epoch_metrics |-> <<>>]

(***************************************************************************)
(* Part III records (defined here for use in Init).  A mapping sends       *)
(* every key to the id of its array, 0 when the mapping lacks the key.     *)
(***************************************************************************)
Keys == {"w", "b"}

\* the order in which the keys of a mapping are iterated
KeySeq == <<"w", "b">>

EmptyMap == [k \in Keys |-> 0]

\* previous_velocity = None
NoVelocity == [none |-> TRUE, map |-> EmptyMap]

NoCall == [fn |-> "none", weights |-> <<>>, clipping_bound |-> <<0, 1>>,
           momentum |-> <<0, 1>>]

NoResult == [raised |-> "", out |-> EmptyMap, velocity |-> EmptyMap]

(***************************************************************************)
(* Part IV records (defined here for use in Init).                         *)
(***************************************************************************)
\* convert_bytes_to_gradients has not returned
NotRestored == [raised |-> "", map |-> <<>>]

(***************************************************************************)
(* Part V records (defined here for use in Init).                          *)
(***************************************************************************)
\* active_sessions has no entry for the session
NoSession ==
    [present |-> FALSE, threshold |-> 3, status |-> "none", logs |-> <<>>,
     result |-> FALSE, error |-> FALSE, end_time |-> FALSE]

\* a submit_gradient call that has not been made
NotCalled == [pc |-> "idle", has_key |-> TRUE, gradients_list |-> <<>>, returned |-> "none"]

NoCalls == [c \in 1..MaxSubmit |-> NotCalled]

\* no TinyCNN object constructed yet
NoModel ==
    [pc |-> "none", weights |-> <<>>, biases |-> <<>>, X |-> <<>>, y |-> <<>>,
     output |-> <<>>, gradients |-> <<>>]

(***************************************************************************)
(* Part I.  POST /start                                                    *)
(***************************************************************************)
IdleWorker ==
    [pc |-> "idle", epochs |-> 0, batch_size |-> 0, epoch |-> 0, i |-> 0,
     status |-> "none", losses |-> 0, epoch_metrics |-> <<>>, steps |-> 0]

\* lines 274-297: the session document is created with status 'preparing'
start_local_training_create_session ==
    /\ start = "idle"
    /\ connected
    /\ start' = "L309"
    /\ session' = NewSession
    /\ UNCHANGED <<connected, model, worker, req, response, halted>>
    /\ UNCHANGED not_backend

\* lines 300-321: the model document is created, run_training is scheduled
\* with the request's parameters and the handler answers 'preparing'
start_local_training_create_model ==
    /\ start = "L309"
    /\ connected
    /\ \E e \in 0..MaxEpochs, b \in BatchSizes :
          worker' = [IdleWorker EXCEPT !.pc = "L60", !.epochs = e, !.batch_size = b]
    /\ model' = [present |-> TRUE, updated |-> FALSE]
    /\ start' = "done"
    /\ response' = [op |-> "start", code |-> 200]
    /\ UNCHANGED <<connected, session, req, halted>>
    /\ UNCHANGED not_backend

(***************************************************************************)
(* Part I.  run_training (routers/local_training.py).  Every await is a    *)
(* point where the event loop may run another handler; the code between    *)
(* two awaits is one step.                                                 *)
(***************************************************************************)
Read == get_training_session(connected, session)

\* total_batches = num_samples // batch_size (line 84)
total_batches(batch_size) == NumSamples \div batch_size

\* line 60-63: the session is fetched; the task returns when it is missing
run_training_L60 ==
    /\ worker.pc = "L60"
    /\ worker' = [worker EXCEPT !.status = Read.status,
                                !.pc = IF Read.present THEN "L66" ELSE "done"]
    /\ UNCHANGED <<connected, session, model, start, req, response, halted>>
    /\ UNCHANGED not_backend

\* line 66: status is set to 'training' whatever it was; lines 69-87 then
\* run without an await (total_batches raises ZeroDivisionError when
\* batch_size is 0, which the outer except turns into the 'failed' write)
run_training_L66 ==
    /\ worker.pc = "L66"
    /\ session' = update_training_session(connected, session, [status |-> "training"])
    /\ worker' = [worker EXCEPT
          !.pc = IF worker.batch_size = 0 THEN "L253"
                 ELSE IF worker.epochs > 0 THEN "L92" ELSE "L173",
          !.epoch = 0, !.epoch_metrics = <<>>]
    /\ UNCHANGED <<connected, model, start, req, response, halted>>
    /\ UNCHANGED not_backend

\* a read that shows a stop: no document, or a status other than
\* 'training' and 'paused'
OtherStatus(doc) == ~doc.present \/ doc.status \notin {"training", "paused"}

\* lines 92-94: the check at the top of every epoch leaves the epoch loop
\* unless the status read is exactly 'training'
EpochTopContinues(doc) == doc.present /\ doc.status = "training"

run_training_L92 ==
    /\ worker.pc = "L92"
    /\ worker' = [worker EXCEPT
          !.status = Read.status,
          !.pc = IF EpochTopContinues(Read) THEN "L107" ELSE "L173",
          !.losses = 0, !.i = 0]
    /\ halted' = (halted \/ OtherStatus(Read))
    /\ UNCHANGED <<connected, session, model, start, req, response>>
    /\ UNCHANGED not_backend

\* lines 107-110: the status read before a mini-batch; 'paused' keeps the
\* worker in the sleep loop
BatchWaits(doc) == doc.present /\ doc.status = "paused"

\* line 113: any status other than 'training'/'paused' leaves the batch loop
BatchBreaks(doc) == OtherStatus(doc)

\* lines 107-141: read the status, wait / break / train one mini-batch.
\* The progress computation divides by epochs * total_batches (line 130),
\* which raises when total_batches is 0.
run_training_L107 ==
    /\ worker.pc \in {"L107", "L110"}
    /\ IF BatchWaits(Read)
       THEN /\ worker' = [worker EXCEPT !.status = Read.status, !.pc = "L110"]
            /\ UNCHANGED halted
       ELSE IF BatchBreaks(Read)
       THEN /\ worker' = [worker EXCEPT !.status = Read.status, !.pc = "L148"]
            /\ halted' = TRUE
       ELSE /\ worker' = [worker EXCEPT
                  !.status = Read.status,
                  !.steps = @ + 1,
                  !.losses = @ + 1,
                  !.pc = IF total_batches(worker.batch_size) = 0 THEN "L253" ELSE "L143"]
            /\ UNCHANGED halted
    /\ UNCHANGED <<connected, session, model, start, req, response>>
    /\ UNCHANGED not_backend

\* lines 132-145: the progress record is written, then the next batch
run_training_L143 ==
    /\ worker.pc = "L143"
    /\ session' = update_training_session(connected, session,
          [progress |-> [epoch |-> worker.epoch + 1,
                         batch |-> (worker.i \div worker.batch_size) + 1,
                         totalBatches |-> total_batches(worker.batch_size),
                         percentage |-> progress_pct(worker.epoch,
                                           total_batches(worker.batch_size),
                                           (worker.i \div worker.batch_size) + 1,
                                           worker.epochs)]])
    /\ worker' = [worker EXCEPT
          !.i = @ + worker.batch_size,
          !.pc = IF worker.i + worker.batch_size < NumSamples THEN "L107" ELSE "L148"]
    /\ UNCHANGED <<connected, model, start, req, response, halted>>
    /\ UNCHANGED not_backend

\* lines 148-150: the check after the batch loop accepts 'training' and 'paused'
EpochEndContinues(doc) == doc.present /\ doc.status \in {"training", "paused"}

\* lines 148-165
run_training_L148 ==
    /\ worker.pc = "L148"
    /\ worker' = [worker EXCEPT
          !.status = Read.status,
          !.epoch_metrics = IF EpochEndContinues(Read)
                            THEN Append(@, worker.epoch + 1) ELSE @,
          !.pc = IF EpochEndContinues(Read) THEN "L168" ELSE "L173"]
    /\ halted' = (halted \/ OtherStatus(Read))
    /\ UNCHANGED <<connected, session, model, start, req, response>>
    /\ UNCHANGED not_backend

\* line 168, then the next iteration of the epoch loop
run_training_L168 ==
    /\ worker.pc = "L168"
    /\ session' = update_training_session(connected, session,
          [epochMetrics |-> worker.epoch_metrics])
    /\ worker' = [worker EXCEPT
          !.epoch = @ + 1,
          !.pc = IF worker.epoch + 1 < worker.epochs THEN "L92" ELSE "L173"]
    /\ UNCHANGED <<connected, model, start, req, response, halted>>
    /\ UNCHANGED not_backend

\* lines 173-174: the final read; the result is written only when the
\* status read is 'training'
run_training_L173 ==
    /\ worker.pc = "L173"
    /\ worker' = [worker EXCEPT
          !.status = Read.status,
          !.pc = IF Read.present /\ Read.status = "training" THEN "L224" ELSE "done"]
    /\ halted' = (halted \/ OtherStatus(Read))
    /\ UNCHANGED <<connected, session, model, start, req, response>>
    /\ UNCHANGED not_backend

\* lines 224-232: the completion write
run_training_L224 ==
    /\ worker.pc = "L224"
    /\ session' = update_training_session(connected, session,
          [status |-> "completed", result |-> TRUE,
           stats |-> Len(worker.epoch_metrics)])
    /\ worker' = [worker EXCEPT !.pc = "L236"]
    /\ UNCHANGED <<connected, model, start, req, response, halted>>
    /\ UNCHANGED not_backend

\* lines 235-242: update_model
run_training_L236 ==
    /\ worker.pc = "L236"
    /\ model' = IF connected /\ model.present
                THEN [model EXCEPT !.updated = TRUE] ELSE model
    /\ worker' = [worker EXCEPT !.pc = "done"]
    /\ UNCHANGED <<connected, session, start, req, response, halted>>
    /\ UNCHANGED not_backend

\* lines 250-260: the outer except writes 'failed'
run_training_L253 ==
    /\ worker.pc = "L253"
    /\ session' = update_training_session(connected, session,
          [status |-> "failed", error |-> "exception"])
    /\ worker' = [worker EXCEPT !.pc = "done"]
    /\ UNCHANGED <<connected, model, start, req, response, halted>>
    /\ UNCHANGED not_backend

(***************************************************************************)
(* Part I.  pause / resume / stop (train.py 205-278, local_training.py     *)
(* 358-431; the two routers hold the same code over the same store).       *)
(* Each handler awaits the read, checks, then awaits the write.            *)
(***************************************************************************)
\* mutant: pause also accepted while the session is still 'preparing'
PauseAccepts_AlsoPreparing(status) == status \in {"training", "preparing"}

PauseAccepts(status) == status = "training"
ResumeAccepts(status) == status = "paused"
StopAccepts(status) == status \notin {"completed", "failed", "stopped"}

\* The part of a handler up to its second await: 404 when no session was
\* read, 400 when the guard rejects the status read, else on to the write
Guarded(op, accepts) ==
    /\ req[op] = "idle"
    /\ IF ~Read.present
       THEN /\ response' = [op |-> op, code |-> 404]
            /\ UNCHANGED req
       ELSE IF ~accepts
       THEN /\ response' = [op |-> op, code |-> 400]
            /\ UNCHANGED req
       ELSE /\ req' = [req EXCEPT ![op] = "update"]
            /\ UNCHANGED response
    /\ UNCHANGED <<connected, session, model, start, worker, halted>>
    /\ UNCHANGED not_backend

\* The write of an accepted request and its success answer
Written(op, fields) ==
    /\ req[op] = "update"
    /\ session' = update_training_session(connected, session, fields)
    /\ req' = [req EXCEPT ![op] = "idle"]
    /\ response' = [op |-> op, code |-> 200]
    /\ UNCHANGED <<connected, model, start, worker, halted>>
    /\ UNCHANGED not_backend

pause_training_get == Guarded("pause", PauseAccepts(Read.status))
pause_training_update == Written("pause", [status |-> "paused"])

resume_training_get == Guarded("resume", ResumeAccepts(Read.status))
resume_training_update == Written("resume", [status |-> "training"])

stop_training_get == Guarded("stop", StopAccepts(Read.status))
stop_training_update ==
    Written("stop", [status |-> "stopped", error |-> "Training stopped by user"])

\* upload_gradients (local_training.py 434-459) and submit_gradients
\* (train.py 373-411): 404 when no session was read, 400 'Training not
\* completed yet' when the session read has no result, else success.  The
\* gradient document submit_gradients then inserts is not part of the state.
ResultGuarded(op) ==
    /\ response' = [op |-> op,
                    code |-> IF ~Read.present THEN 404
                             ELSE IF ~Read.result THEN 400 ELSE 200]
    /\ UNCHANGED <<connected, session, model, start, worker, req, halted>>
    /\ UNCHANGED not_backend

upload_gradients == ResultGuarded("upload")

submit_gradients == ResultGuarded("submit")

\* self.walrus_service.retrieve(gradient_uri) (gradient_service.py 63):
\* WalrusService defines no method `retrieve`, the call raises
walrus_service_retrieve == [raised |-> "AttributeError", data |-> FALSE]

\* GradientService.retrieve_gradient (gradient_service.py 52-66): the data,
\* or ValueError for whatever the storage call raised
retrieve_gradient ==
    IF walrus_service_retrieve.raised # ""
    THEN [raised |-> "ValueError", data |-> FALSE]
    ELSE walrus_service_retrieve

\* the try block of download_gradient (gradients.py 55-60): what it raises
download_gradient_try ==
    IF retrieve_gradient.raised # ""
    THEN [raised |-> retrieve_gradient.raised, code |-> 0]
    ELSE IF ~retrieve_gradient.data
    THEN [raised |-> "HTTPException", code |-> 404]
    ELSE [raised |-> "", code |-> 200]

\* GET /download/{gradient_uri} (gradients.py 44-62): the only handler is
\* `except Exception`, which also catches the HTTPException of the try block
download_gradient ==
    /\ response' = [op |-> "download",
                    code |-> IF download_gradient_try.raised = "" THEN 200 ELSE 500]
    /\ UNCHANGED <<connected, session, model, start, worker, req, halted>>
    /\ UNCHANGED not_backend

(***************************************************************************)
(* Part I.  Specification of the backend.                                  *)
(***************************************************************************)
Init ==
    /\ connected = TRUE
    /\ session = NoDocument
    /\ model = [present |-> FALSE, updated |-> FALSE]
    /\ start = "idle"
    /\ worker = IdleWorker
    /\ req = [pause |-> "idle", resume |-> "idle", stop |-> "idle"]
    /\ response = [op |-> "none", code |-> 0]
    /\ halted = FALSE
    /\ sessions = NoEntry
    /\ fe_worker = IdleThread
    /\ fe_connected = FALSE
    /\ fe_mongo = NoDocument
    /\ heap = <<>>
    /\ gradients_list = <<>>
    /\ previous_velocity = NoVelocity
    /\ call = NoCall
    /\ result = NoResult
    /\ gradients = <<>>
    /\ blob = <<>>
    /\ restored = NotRestored
    /\ ser_pc = "idle"
    /\ active_sessions = NoSession
    /\ session_gradients = <<>>
    /\ session_locks = 0
    /\ submit = NoCalls
    /\ applied = <<>>
    /\ cnn = NoModel

Next ==
    \/ start_local_training_create_session
    \/ start_local_training_create_model
    \/ run_training_L60
    \/ run_training_L66
    \/ run_training_L92
    \/ run_training_L107
    \/ run_training_L143
    \/ run_training_L148
    \/ run_training_L168
    \/ run_training_L173
    \/ run_training_L224
    \/ run_training_L236
    \/ run_training_L253
    \/ pause_training_get
    \/ pause_training_update
    \/ resume_training_get
    \/ resume_training_update
    \/ stop_training_get
    \/ stop_training_update
    \/ upload_gradients
    \/ submit_gradients
    \/ download_gradient

Spec == Init /\ [][Next]_vars

(***************************************************************************)
(* Part I.  The backend with a store that may be lost.  When the           *)
(* connection fails (connect_to_mongo line 85) or is closed                *)
(* (close_mongo_connection) get_collection raises in every store call.     *)
(***************************************************************************)
connection_lost ==
    /\ connected
    /\ connected' = FALSE
    /\ UNCHANGED <<session, model, start, worker, req, response, halted>>
    /\ UNCHANGED not_backend

\* create_training_session / create_model re-raise the store's exception
\* and the handler's except answers 500 (local_training.py 323-327)
start_local_training_fails ==
    /\ start \in {"idle", "L309"}
    /\ ~connected
    /\ start' = "done"
    /\ response' = [op |-> "start", code |-> 500]
    /\ UNCHANGED <<connected, session, model, worker, req, halted>>
    /\ UNCHANGED not_backend

\* GET /status (local_training.py 330-355, train.py 172-202): one store
\* call, 404 when it returns None
get_training_status ==
    /\ response' = [op |-> "status", code |-> IF Read.present THEN 200 ELSE 404]
    /\ UNCHANGED <<connected, session, model, start, worker, req, halted>>
    /\ UNCHANGED not_backend

NextStore ==
    \/ Next
    \/ connection_lost
    \/ start_local_training_fails
    \/ get_training_status

SpecStore == Init /\ [][NextStore]_vars

(***************************************************************************)
(* Part I.  Properties of the backend.                                     *)
(***************************************************************************)

\* C1: a session that was paused and resumed, was never stopped and did not
\* fail, is completed by its worker: once the worker has returned after a
\* successful resume (having trained at least one mini-batch), the stored
\* status is 'completed'.
C1_PausedResumedSessionCompletes ==
    ( /\ worker.pc = "done"
      /\ worker.steps >= 1
      /\ response = [op |-> "resume", code |-> 200]
      /\ req.stop = "idle"
      /\ session.error = "" )
    => session.status = "completed"

\* C2: once the worker has read a status other than 'training' and 'paused'
\* (or has found no session) it executes no further training step.
C2_NoStepAfterOtherStatus ==
    [][halted => worker'.steps = worker.steps]_vars

\* C4: stop is final: once the stored status is 'stopped' it is 'stopped'
\* in every later state.
C4_StopIsFinal ==
    [][session.status = "stopped" => session'.status = "stopped"]_vars

\* a step of the handler of op
HandlerStep(op) ==
    \/ req'[op] # req[op]
    \/ response' # response /\ response'.op = op

\* C5: pause is accepted only on 'training', resume only on 'paused', stop
\* only outside 'completed'/'failed'/'stopped'; an unknown session answers
\* 404, any other state answers 400, and a rejected request leaves the
\* session record unchanged.
C5_GuardsAndRejections ==
    [][\A op \in {"pause", "resume", "stop"} :
          (HandlerStep(op) /\ req[op] = "idle") =>
             LET ok == CASE op = "pause" -> session.status = "training"
                         [] op = "resume" -> session.status = "paused"
                         [] op = "stop" ->
                              session.status \notin {"completed", "failed", "stopped"}
             IN  /\ session' = session
                 /\ IF ~session.present
                    THEN response' = [op |-> op, code |-> 404] /\ req' = req
                    ELSE IF ~ok
                    THEN response' = [op |-> op, code |-> 400] /\ req' = req
                    ELSE req'[op] = "update" /\ response' = response]_vars

\* C5 witness: a resume was rejected with 400 while the session is training
C5_Witness ==
    /\ response = [op |-> "resume", code |-> 400]
    /\ session.present
    /\ session.status = "training"

\* C14: when the store is not connected while a status, pause, resume or
\* stop request for an existing session is served, the endpoint answers
\* HTTP 500: it answers
\* neither 404 for a session that exists nor success for a status change
\* that was not written.
C14_StoreFailureAnswers500 ==
    [][\A op \in {"status", "pause", "resume", "stop"} :
          (~connected /\ session.present /\ response' # response /\ response'.op = op)
             => response'.code = 500]_vars

C22_SessionHasTask ==
    /\ worker.pc # "idle" => (session.present /\ model.present)
    /\ (start = "done" /\ worker.pc = "idle") => ~session.present

\* a progress record a worker wrote has 1 <= batch <= totalBatches and
\* 0 < percentage <= 100
InRange(progress) ==
    progress # NoProgress =>
        /\ 1 <= progress.batch
        /\ progress.batch <= progress.totalBatches
        /\ 0 < progress.percentage[1]
        /\ progress.percentage[1] <= 100 * progress.percentage[2]

\* C23: every progress record written by a training worker, backend or
\* frontend, satisfies 1 <= batch <= totalBatches and 0 < percentage <= 100.
C23_ProgressInRange ==
    /\ InRange(session.progress)
    /\ InRange(sessions.progress)
    /\ InRange(fe_mongo.progress)

\* C18: a session record has a result only while its status is
\* 'completed', and upload-gradients and submit-gradients answer success
\* only for a session whose stored status is 'completed'.
C18_ResultOnlyWhileCompleted ==
    [][/\ session'.result => session'.status = "completed"
       /\ \A op \in {"upload", "submit"} :
             (response' # response /\ response' = [op |-> op, code |-> 200])
                => session.status = "completed"]_vars

\* C19: whenever the run_training worker of a session has terminated, the
\* stored status of the session is 'completed', 'failed' or 'stopped'.
C19_TerminatedWorkerTerminalStatus ==
    (worker.pc = "done" /\ session.present)
       => session.status \in {"completed", "failed", "stopped"}

\* C20: whenever the stored status is 'completed' the worker has run every
\* requested epoch: epochMetrics holds the entries of epochs 1..epochs, in
\* order, and result.stats.loss / accuracy have `epochs` entries.
C20_CompletedRanEveryEpoch ==
    (session.present /\ session.status = "completed") =>
       /\ session.epochMetrics = [e \in 1..worker.epochs |-> e]
       /\ session.stats = worker.epochs

(***************************************************************************)
(* Part II.  The in-memory routers under src/frontend.  The workers run    *)
(* in a thread pool (run_in_threadpool), so a handler may run between any  *)
(* two statements of a worker; the handlers themselves hold no await that  *)
(* suspends them and are one step each.                                    *)
(***************************************************************************)
\* training.py 254-259 / local_training.py 148-153 (the upper limits 1000
\* and 10000 lie beyond the bounds of the model)
ValidParams(e, b) == e > 0 /\ b > 0

\* total_batches = max(1, num_samples // batch_size)
fe_total_batches(batch_size) ==
    IF NumSamples \div batch_size < 1 THEN 1 ELSE NumSamples \div batch_size

\* POST /start of either router: 400 for invalid parameters, else the entry
\* is created with status 'preparing' and the worker is handed to the pool
StartThread(kind) ==
    /\ fe_worker.pc = "idle"
    /\ ~sessions.present
    /\ \E e \in 0..MaxEpochs, b \in BatchSizes :
          IF ValidParams(e, b)
          THEN /\ sessions' = [NoEntry EXCEPT !.present = TRUE, !.status = "preparing"]
               /\ fe_worker' = [IdleThread EXCEPT !.pc = "L90", !.kind = kind,
                                                  !.epochs = e, !.batch_size = b]
               /\ response' = [op |-> "start", code |-> 200]
          ELSE /\ response' = [op |-> "start", code |-> 400]
               /\ UNCHANGED <<sessions, fe_worker>>
    /\ UNCHANGED <<fe_connected, fe_mongo>>
    /\ UNCHANGED not_frontend

fe_start_training == StartThread("training")
fe_start_local_training == StartThread("local")

\* the writes of run_training (training.py) go to the document store too
\* when is_connected() held at its start; run_local_training writes to the
\* map only
Mirror(fields) ==
    IF fe_worker.kind = "training" /\ fe_worker.use_mongodb
    THEN update_training_session(fe_connected, fe_mongo, fields)
    ELSE fe_mongo

\* training.py 50-90 / local_training.py 37-38: status := 'training'
WorkerBegins(kind) ==
    /\ fe_worker.pc = "L90"
    /\ fe_worker.kind = kind
    /\ LET use == kind = "training" /\ fe_connected
       IN  /\ fe_worker' = [fe_worker EXCEPT !.pc = "batch", !.use_mongodb = use,
                                             !.epoch = 0, !.i = 0]
           /\ fe_mongo' = IF use
                          THEN update_training_session(fe_connected, fe_mongo,
                                                       [status |-> "training"])
                          ELSE fe_mongo
    /\ sessions' = [sessions EXCEPT !.status = "training"]
    /\ UNCHANGED <<fe_connected, response>>
    /\ UNCHANGED not_frontend

\* training.py 127-170 / local_training.py 70-99: one mini-batch is
\* processed and its progress record written; the status is not read
WorkerBatch(kind) ==
    /\ fe_worker.pc = "batch"
    /\ fe_worker.kind = kind
    /\ LET progress == [epoch |-> fe_worker.epoch + 1,
                        batch |-> (fe_worker.i \div fe_worker.batch_size) + 1,
                        totalBatches |-> fe_total_batches(fe_worker.batch_size),
                        percentage |-> progress_pct(fe_worker.epoch,
                                          fe_total_batches(fe_worker.batch_size),
                                          (fe_worker.i \div fe_worker.batch_size) + 1,
                                          fe_worker.epochs)]
       IN  /\ sessions' = [sessions EXCEPT !.progress = progress]
           /\ fe_mongo' = Mirror([progress |-> progress])
    /\ fe_worker' = [fe_worker EXCEPT
          !.batches = @ + 1,
          !.i = @ + fe_worker.batch_size,
          !.pc = IF fe_worker.i + fe_worker.batch_size < NumSamples
                 THEN "batch" ELSE "epoch_end"]
    /\ UNCHANGED <<fe_connected, response>>
    /\ UNCHANGED not_frontend

\* training.py 172-194 / local_training.py 101-116: the epoch's metrics
WorkerEpochEnd(kind) ==
    /\ fe_worker.pc = "epoch_end"
    /\ fe_worker.kind = kind
    /\ LET metrics == Append(fe_worker.epoch_metrics, fe_worker.epoch + 1)
       IN  /\ sessions' = [sessions EXCEPT !.epoch_metrics = metrics]
           /\ fe_mongo' = Mirror([epochMetrics |-> metrics])
           /\ fe_worker' = [fe_worker EXCEPT
                 !.epoch_metrics = metrics,
                 !.epoch = @ + 1,
                 !.i = 0,
                 !.pc = IF fe_worker.epoch + 1 < fe_worker.epochs
                        THEN "batch" ELSE "L222"]
    /\ UNCHANGED <<fe_connected, response>>
    /\ UNCHANGED not_frontend

\* training.py 211-222 / local_training.py 120-121: status := 'completed',
\* whatever the status is
WorkerCompletes(kind) ==
    /\ fe_worker.pc = "L222"
    /\ fe_worker.kind = kind
    /\ sessions' = [sessions EXCEPT !.status = "completed"]
    /\ fe_mongo' = Mirror([status |-> "completed", result |-> TRUE,
                           stats |-> Len(fe_worker.epoch_metrics)])
    /\ fe_worker' = [fe_worker EXCEPT !.pc = "L223"]
    /\ UNCHANGED <<fe_connected, response>>
    /\ UNCHANGED not_frontend

\* training.py 223 / local_training.py 122-132: the result is stored
WorkerResult(kind) ==
    /\ fe_worker.pc = "L223"
    /\ fe_worker.kind = kind
    /\ sessions' = [sessions EXCEPT !.result = TRUE]
    /\ fe_worker' = [fe_worker EXCEPT !.pc = "done"]
    /\ UNCHANGED <<fe_connected, fe_mongo, response>>
    /\ UNCHANGED not_frontend

fe_run_training_begin == WorkerBegins("training")
fe_run_training_batch == WorkerBatch("training")
fe_run_training_epoch_end == WorkerEpochEnd("training")
fe_run_training_completes == WorkerCompletes("training")
fe_run_training_result == WorkerResult("training")

run_local_training_begin == WorkerBegins("local")
run_local_training_batch == WorkerBatch("local")
run_local_training_epoch_end == WorkerEpochEnd("local")
run_local_training_completes == WorkerCompletes("local")
run_local_training_result == WorkerResult("local")

\* pause / resume / stop of both routers: no check of the current status;
\* 404 when the map has no entry.  (In training.py the store update is
\* attempted with asyncio.run from inside the running event loop, which
\* raises and is swallowed by _try_async_call: the store is not written.)
SetStatus(op, status, error) ==
    /\ IF sessions.present
       THEN /\ sessions' = [sessions EXCEPT !.status = status, !.error = error]
            /\ response' = [op |-> op, code |-> 200]
       ELSE /\ response' = [op |-> op, code |-> 404]
            /\ UNCHANGED sessions
    /\ UNCHANGED <<fe_worker, fe_connected, fe_mongo>>
    /\ UNCHANGED not_frontend

fe_pause_training == SetStatus("pause", "paused", sessions.error)
fe_resume_training == SetStatus("resume", "training", sessions.error)
fe_stop_training == SetStatus("stop", "stopped", "Training stopped by user")

InitFrontend ==
    /\ connected = TRUE
    /\ session = NoDocument
    /\ model = [present |-> FALSE, updated |-> FALSE]
    /\ start = "idle"
    /\ worker = IdleWorker
    /\ req = [pause |-> "idle", resume |-> "idle", stop |-> "idle"]
    /\ response = [op |-> "none", code |-> 0]
    /\ halted = FALSE
    /\ sessions = NoEntry
    /\ fe_worker = IdleThread
    /\ fe_connected \in BOOLEAN
    /\ fe_mongo = NoDocument
    /\ heap = <<>>
    /\ gradients_list = <<>>
    /\ previous_velocity = NoVelocity
    /\ call = NoCall
    /\ result = NoResult
    /\ gradients = <<>>
    /\ blob = <<>>
    /\ restored = NotRestored
    /\ ser_pc = "idle"
    /\ active_sessions = NoSession
    /\ session_gradients = <<>>
    /\ session_locks = 0
    /\ submit = NoCalls
    /\ applied = <<>>
    /\ cnn = NoModel

NextFrontend ==
    \/ fe_start_training
    \/ fe_start_local_training
    \/ fe_run_training_begin
    \/ fe_run_training_batch
    \/ fe_run_training_epoch_end
    \/ fe_run_training_completes
    \/ fe_run_training_result
    \/ run_local_training_begin
    \/ run_local_training_batch
    \/ run_local_training_epoch_end
    \/ run_local_training_completes
    \/ run_local_training_result
    \/ fe_pause_training
    \/ fe_resume_training
    \/ fe_stop_training

SpecFrontend == InitFrontend /\ [][NextFrontend]_vars

\* C3: after stop_training has set the status to 'stopped' (or pause_training
\* to 'paused') the background task processes no further mini-batch while
\* that status stands and never overwrites the status with 'completed'.
C3_StoppedOrPausedTaskDoesNothing ==
    [][sessions.status \in {"stopped", "paused"} =>
          /\ fe_worker'.batches = fe_worker.batches
          /\ sessions'.status # "completed"]_vars

\* C15: a session created by POST /start of the training router while the
\* database is connected has a record in training_sessions, and every
\* status the in-memory entry is given by the worker or by pause / resume /
\* stop is also the status of that record.
C15_SessionPersisted ==
    (fe_connected /\ sessions.present /\ fe_worker.kind = "training") =>
       /\ fe_mongo.present
       /\ sessions.status \in {"training", "paused", "stopped", "completed", "failed"}
             => fe_mongo.status = sessions.status

(***************************************************************************)
(* Part III.  ai/aggregator.py.  Array elements are exact rationals        *)
(* <<numerator, denominator>> in lowest terms (floating-point rounding is  *)
(* not modelled).  Arrays are objects of `heap`, so that an in-place       *)
(* operation (+=, /=) on an array shows in every mapping that holds it.    *)
(***************************************************************************)
Abs(x) == IF x < 0 THEN -x ELSE x

RECURSIVE GCD(_, _)
GCD(a, b) == IF b = 0 THEN a ELSE GCD(b, a % b)

\* the rational n/d in lowest terms, d # 0
Q(n, d) ==
    LET g == GCD(Abs(n), Abs(d))
        sg == IF d < 0 THEN -1 ELSE 1
    IN  <<(sg * n) \div g, Abs(d) \div g>>

QInt(i) == <<i, 1>>
QAdd(x, y) == Q(x[1] * y[2] + y[1] * x[2], x[2] * y[2])
QSub(x, y) == Q(x[1] * y[2] - y[1] * x[2], x[2] * y[2])
QMul(x, y) == Q(x[1] * y[1], x[2] * y[2])
QDiv(x, y) == Q(x[1] * y[2], x[2] * y[1])
QLess(x, y) == x[1] * y[2] < y[1] * x[2]

\* elementwise array operations (numpy broadcasting of equal shapes)
VAdd(a, b) == [j \in 1..Len(a) |-> QAdd(a[j], b[j])]
VScale(q, a) == [j \in 1..Len(a) |-> QMul(q, a[j])]
VDiv(a, q) == [j \in 1..Len(a) |-> QDiv(a[j], q)]
zeros_like(a) == [j \in 1..Len(a) |-> QInt(0)]

\* sum(weights)
RECURSIVE QSum(_, _)
QSum(qs, j) == IF j > Len(qs) THEN QInt(0) ELSE QAdd(qs[j], QSum(qs, j + 1))

\* np.sum(grad**2)
RECURSIVE SumSq(_, _)
SumSq(a, j) == IF j > Len(a) THEN QInt(0) ELSE QAdd(QMul(a[j], a[j]), SumSq(a, j + 1))

\* a new array object holding arr: the grown heap, its id is the new length
Alloc(h, arr) == Append(h, arr)

\* mutant: a key missing from `averaged` (absent from the first
\* contributor) is ignored
AddGrad_SkipMissing(st, g, k) ==
    IF g[k] = 0 \/ st.averaged[k] = 0 THEN st
    ELSE [st EXCEPT !.heap[st.averaged[k]] = VAdd(@, st.heap[g[k]])]

\* mutant: a key missing from `averaged` is entered without .copy(), so
\* the contributor's own array becomes the accumulator
AddGrad_NoCopy(st, g, k) ==
    IF g[k] = 0 THEN st
    ELSE IF st.averaged[k] # 0
    THEN [st EXCEPT !.heap[st.averaged[k]] = VAdd(@, st.heap[g[k]])]
    ELSE [st EXCEPT !.averaged[k] = g[k]]

\* aggregator.py 32-37: averaged[key] += grad, or averaged[key] = grad.copy()
AddGrad(st, g, k) ==
    IF g[k] = 0 THEN st
    ELSE IF st.averaged[k] # 0
    THEN [st EXCEPT !.heap[st.averaged[k]] = VAdd(@, st.heap[g[k]])]
    ELSE [heap |-> Alloc(st.heap, st.heap[g[k]]),
          averaged |-> [st.averaged EXCEPT ![k] = Len(st.heap) + 1]]

\* aggregator.py 27-28: averaged[key] = np.zeros_like(grad) for the keys of
\* the first contributor
RECURSIVE ZeroInit(_, _, _)
ZeroInit(st, first, j) ==
    IF j > Len(KeySeq) THEN st
    ELSE LET k == KeySeq[j]
         IN  ZeroInit(IF first[k] = 0 THEN st
                      ELSE [heap |-> Alloc(st.heap, zeros_like(st.heap[first[k]])),
                            averaged |-> [st.averaged EXCEPT ![k] = Len(st.heap) + 1]],
                      first, j + 1)

\* aggregator.py 32: for key, grad in gradients.items()
RECURSIVE SumKeys(_, _, _)
SumKeys(st, g, j) ==
    IF j > Len(KeySeq) THEN st ELSE SumKeys(AddGrad(st, g, KeySeq[j]), g, j + 1)

\* aggregator.py 31: for gradients in gradients_list
RECURSIVE SumAll(_, _, _)
SumAll(st, gl, i) ==
    IF i > Len(gl) THEN st ELSE SumAll(SumKeys(st, gl[i], 1), gl, i + 1)

\* mutant: the sum is returned without the division
DivideAll_Skipped(st, n) == st

\* aggregator.py 40-42: averaged[key] /= num_gradients, in place
DivideAll(st, n) ==
    [st EXCEPT !.heap =
        [id \in 1..Len(st.heap) |->
            IF \E k \in Keys : st.averaged[k] = id
            THEN VDiv(st.heap[id], QInt(n)) ELSE st.heap[id]]]

\* mutant: an empty mapping is returned where the code raises
Raise_ReturnsEmpty(h, e) ==
    [raised |-> "", heap |-> h, out |-> EmptyMap, velocity |-> EmptyMap]

\* raise ValueError(e): nothing is returned (aggregator.py 20, 59, 64, 101)
Raise(h, e) == [raised |-> e, heap |-> h, out |-> EmptyMap, velocity |-> EmptyMap]

\* aggregator.py 9-44
federated_average(h, gl) ==
    IF Len(gl) = 0 THEN Raise(h, "ValueError: No gradients to average")
    ELSE LET st0 == ZeroInit([heap |-> h, averaged |-> EmptyMap], gl[1], 1)
             st1 == SumAll(st0, gl, 1)
             st2 == DivideAll(st1, Len(gl))
         IN  [raised |-> "", heap |-> st2.heap, out |-> st2.averaged,
              velocity |-> EmptyMap]

\* aggregator.py 79-84: averaged[key] += weight * grad, or
\* averaged[key] = weight * grad
AddWeighted(st, g, k, weight) ==
    IF g[k] = 0 THEN st
    ELSE IF st.averaged[k] # 0
    THEN [st EXCEPT !.heap[st.averaged[k]] = VAdd(@, VScale(weight, st.heap[g[k]]))]
    ELSE [heap |-> Alloc(st.heap, VScale(weight, st.heap[g[k]])),
          averaged |-> [st.averaged EXCEPT ![k] = Len(st.heap) + 1]]

RECURSIVE WeightedKeys(_, _, _, _)
WeightedKeys(st, g, weight, j) ==
    IF j > Len(KeySeq) THEN st
    ELSE WeightedKeys(AddWeighted(st, g, KeySeq[j], weight), g, weight, j + 1)

\* aggregator.py 77-84
RECURSIVE WeightedAll(_, _, _, _)
WeightedAll(st, gl, nw, i) ==
    IF i > Len(gl) THEN st
    ELSE WeightedAll(WeightedKeys(st, gl[i], nw[i], 1), gl, nw, i + 1)

\* mutant: the weights are used as given, not divided by their sum
normalized_weights_Raw(weights) == weights

\* aggregator.py 62-66: normalized_weights = [w / total_weight for w in weights]
normalized_weights(weights) ==
    [i \in 1..Len(weights) |-> QDiv(weights[i], QSum(weights, 1))]

\* aggregator.py 46-86
weighted_federated_average(h, gl, weights) ==
    IF Len(gl) = 0 \/ Len(gl) # Len(weights)
    THEN Raise(h, "ValueError: Invalid gradients or weights")
    ELSE IF QSum(weights, 1) = QInt(0)
    THEN Raise(h, "ValueError: Total weight cannot be zero")
    ELSE LET st0 == ZeroInit([heap |-> h, averaged |-> EmptyMap], gl[1], 1)
             st1 == WeightedAll(st0, gl, normalized_weights(weights), 1)
         IN  [raised |-> "", heap |-> st1.heap, out |-> st1.averaged,
              velocity |-> EmptyMap]

\* sum(np.sum(grad**2) for grad in gradients.values())
RECURSIVE NormSq(_, _, _)
NormSq(h, g, j) ==
    IF j > Len(KeySeq) THEN QInt(0)
    ELSE QAdd(IF g[KeySeq[j]] = 0 THEN QInt(0) ELSE SumSq(h[g[KeySeq[j]]], 1),
              NormSq(h, g, j + 1))

IsSquare(n) == \E r \in 0..n : r * r = n
Isqrt(n) == CHOOSE r \in 0..n : r * r = n

\* np.sqrt, exact on the squares of rationals (the only arguments the
\* model hands to it)
Sqrt(q) == <<Isqrt(q[1]), Isqrt(q[2])>>

\* aggregator.py 107: the norm over all keys of one contributor
global_norm(h, g) == Sqrt(NormSq(h, g, 1))

\* aggregator.py 113-114: clipped[key] = grad * scaling_factor
RECURSIVE ScaleKeys(_, _, _, _)
ScaleKeys(st, g, scaling_factor, j) ==
    IF j > Len(KeySeq) THEN st
    ELSE LET k == KeySeq[j]
         IN  ScaleKeys(IF g[k] = 0 THEN st
                       ELSE [heap |-> Alloc(st.heap, VScale(scaling_factor, st.heap[g[k]])),
                             averaged |-> [st.averaged EXCEPT ![k] = Len(st.heap) + 1]],
                       g, scaling_factor, j + 1)

\* mutant: the clip test compares the squared norm with the bound
NeedsClip_Squared(h, g, clipping_bound) == QLess(clipping_bound, NormSq(h, g, 1))

\* aggregator.py 110: if global_norm > clipping_bound
NeedsClip(h, g, clipping_bound) == QLess(clipping_bound, global_norm(h, g))

\* aggregator.py 105-117: the contributor's mapping itself when it is
\* within the bound, else a new mapping of scaled arrays
RECURSIVE ClipAll(_, _, _, _)
ClipAll(st, gl, clipping_bound, i) ==
    IF i > Len(gl) THEN st
    ELSE LET g == gl[i]
             c == IF NeedsClip(st.heap, g, clipping_bound)
                  THEN ScaleKeys([heap |-> st.heap, averaged |-> EmptyMap], g,
                                 QDiv(clipping_bound, global_norm(st.heap, g)), 1)
                  ELSE [heap |-> st.heap, averaged |-> g]
         IN  ClipAll([heap |-> c.heap, clipped |-> Append(st.clipped, c.averaged)],
                     gl, clipping_bound, i + 1)

\* aggregator.py 104-117
clipped_gradients(h, gl, clipping_bound) ==
    ClipAll([heap |-> h, clipped |-> <<>>], gl, clipping_bound, 1)

\* aggregator.py 88-120
secure_federated_average(h, gl, clipping_bound) ==
    IF Len(gl) = 0 THEN Raise(h, "ValueError: No gradients to average")
    ELSE LET c == clipped_gradients(h, gl, clipping_bound)
         IN  federated_average(c.heap, c.clipped)

\* aggregator.py 140-143: zeros for every key of the average when
\* previous_velocity is None, else previous_velocity.copy() (a shallow copy:
\* the same arrays)
RECURSIVE ZeroVelocity(_, _, _)
ZeroVelocity(st, avg, j) ==
    IF j > Len(KeySeq) THEN st
    ELSE LET k == KeySeq[j]
         IN  ZeroVelocity(IF avg[k] = 0 THEN st
                          ELSE [heap |-> Alloc(st.heap, zeros_like(st.heap[avg[k]])),
                                averaged |-> [st.averaged EXCEPT ![k] = Len(st.heap) + 1]],
                          avg, j + 1)

\* mutant: the velocity is updated in place, in the array the caller holds
RECURSIVE UpdateVelocity_InPlace(_, _, _, _, _)
UpdateVelocity_InPlace(st, avg, velocity, momentum, j) ==
    IF j > Len(KeySeq) THEN st
    ELSE LET k == KeySeq[j]
             next ==
                IF avg[k] = 0 THEN st
                ELSE IF velocity[k] # 0
                THEN [heap |-> [st.heap EXCEPT ![velocity[k]] =
                                 VAdd(VScale(momentum, st.heap[velocity[k]]),
                                      VScale(QSub(QInt(1), momentum), st.heap[avg[k]]))],
                      averaged |-> [st.averaged EXCEPT ![k] = velocity[k]]]
                ELSE [st EXCEPT !.averaged[k] = avg[k]]
         IN  UpdateVelocity_InPlace(next, avg, velocity, momentum, j + 1)

\* aggregator.py 147-151: momentum * velocity[key] + (1 - momentum) * grad
\* when the key has a velocity, else the averaged array itself
RECURSIVE UpdateVelocity(_, _, _, _, _)
UpdateVelocity(st, avg, velocity, momentum, j) ==
    IF j > Len(KeySeq) THEN st
    ELSE LET k == KeySeq[j]
             next ==
                IF avg[k] = 0 THEN st
                ELSE IF velocity[k] # 0
                THEN [heap |-> Alloc(st.heap,
                                 VAdd(VScale(momentum, st.heap[velocity[k]]),
                                      VScale(QSub(QInt(1), momentum), st.heap[avg[k]]))),
                      averaged |-> [st.averaged EXCEPT ![k] = Len(st.heap) + 1]]
                ELSE [st EXCEPT !.averaged[k] = avg[k]]
         IN  UpdateVelocity(next, avg, velocity, momentum, j + 1)

\* aggregator.py 122-154
momentum_federated_average(h, gl, prev, momentum) ==
    LET avg == federated_average(h, gl)
    IN  IF avg.raised # "" THEN avg
        ELSE LET v == IF prev.none
                      THEN ZeroVelocity([heap |-> avg.heap, averaged |-> EmptyMap],
                                        avg.out, 1)
                      ELSE [heap |-> avg.heap, averaged |-> prev.map]
                 nv == UpdateVelocity([heap |-> v.heap, averaged |-> EmptyMap],
                                      avg.out, v.averaged, momentum, 1)
             IN  [raised |-> "", heap |-> nv.heap, out |-> avg.out,
                  velocity |-> nv.averaged]

(***************************************************************************)
(* Part III.  Callers: the inputs are drawn from small sets of arrays.     *)
(***************************************************************************)
\* the arrays a contributor may hold for each key (<<>>: the key is absent)
ArraysOf(k) == IF k = "w" THEN {<<>>, <<3, 4>>, <<-3, 0>>} ELSE {<<>>, <<4>>}

Mappings == {vm \in [Keys -> ArraysOf("w") \cup ArraysOf("b")] :
                \A k \in Keys : vm[k] \in ArraysOf(k)}

Weights == {-1, 0, 1}
ClipBounds == {0, 1, 4}
Momenta == {<<9, 10>>, <<1, 2>>}

\* the arrays of vm become objects of the heap
RECURSIVE Store(_, _, _)
Store(st, vm, j) ==
    IF j > Len(KeySeq) THEN st
    ELSE LET k == KeySeq[j]
         IN  Store(IF vm[k] = <<>> THEN st
                   ELSE [heap |-> Alloc(st.heap, [x \in 1..Len(vm[k]) |-> QInt(vm[k][x])]),
                         averaged |-> [st.averaged EXCEPT ![k] = Len(st.heap) + 1]],
                   vm, j + 1)

\* a contributor's gradients join the list
AddContributor ==
    /\ call.fn = "none"
    /\ previous_velocity.none
    /\ Len(gradients_list) < MaxContrib
    /\ \E vm \in Mappings :
          LET st == Store([heap |-> heap, averaged |-> EmptyMap], vm, 1)
          IN  /\ heap' = st.heap
              /\ gradients_list' = Append(gradients_list, st.averaged)
    /\ UNCHANGED <<previous_velocity, call, result>>
    /\ UNCHANGED not_agg

\* the caller holds a velocity from an earlier round
SetPreviousVelocity ==
    /\ call.fn = "none"
    /\ previous_velocity.none
    /\ \E vm \in Mappings :
          LET st == Store([heap |-> heap, averaged |-> EmptyMap], vm, 1)
          IN  /\ heap' = st.heap
              /\ previous_velocity' = [none |-> FALSE, map |-> st.averaged]
    /\ UNCHANGED <<gradients_list, call, result>>
    /\ UNCHANGED not_agg

Returns(fn, weights, clipping_bound, momentum, r) ==
    /\ call' = [fn |-> fn, weights |-> weights, clipping_bound |-> clipping_bound,
                momentum |-> momentum]
    /\ heap' = r.heap
    /\ result' = [raised |-> r.raised, out |-> r.out, velocity |-> r.velocity]
    /\ UNCHANGED <<gradients_list, previous_velocity>>
    /\ UNCHANGED not_agg

call_federated_average ==
    /\ call.fn = "none"
    /\ previous_velocity.none
    /\ Returns("federated_average", <<>>, QInt(0), QInt(0),
               federated_average(heap, gradients_list))

\* the weights list has the length of the gradient list, or length 1
call_weighted_federated_average ==
    /\ call.fn = "none"
    /\ previous_velocity.none
    /\ \E n \in {Len(gradients_list), 1} : \E ws \in [1..n -> Weights] :
          LET weights == [i \in 1..n |-> QInt(ws[i])]
          IN  Returns("weighted_federated_average", weights, QInt(0), QInt(0),
                      weighted_federated_average(heap, gradients_list, weights))

\* the contributors handed to the clipping have a rational norm
call_secure_federated_average ==
    /\ call.fn = "none"
    /\ previous_velocity.none
    /\ \A i \in 1..Len(gradients_list) :
          IsSquare(NormSq(heap, gradients_list[i], 1)[1])
    /\ \E b \in ClipBounds :
          Returns("secure_federated_average", <<>>, QInt(b), QInt(0),
                  secure_federated_average(heap, gradients_list, QInt(b)))

call_momentum_federated_average ==
    /\ call.fn = "none"
    /\ \E m \in Momenta :
          Returns("momentum_federated_average", <<>>, QInt(0), m,
                  momentum_federated_average(heap, gradients_list,
                                             previous_velocity, m))

NextAggregator ==
    \/ AddContributor
    \/ SetPreviousVelocity
    \/ call_federated_average
    \/ call_weighted_federated_average
    \/ call_secure_federated_average
    \/ call_momentum_federated_average

SpecAggregator == Init /\ [][NextAggregator]_vars

(***************************************************************************)
(* Part III.  TrainingService._aggregate_gradients                         *)
(* (services/training_service.py 232-252) beside federated_average: the    *)
(* service averages the pending mappings itself instead of calling the     *)
(* aggregator.  Both are given the same list of mappings of arrays.        *)
(***************************************************************************)
\* training_service.py 245: sum(g[key] for g in gradients_list), every g
\* holding key k (the start value 0 broadcasts to the arrays' shape)
RECURSIVE KeySum(_, _, _, _)
KeySum(h, gl, k, i) ==
    IF i > Len(gl) THEN zeros_like(h[gl[1][k]])
    ELSE VAdd(h[gl[i][k]], KeySum(h, gl, k, i + 1))

\* training_service.py 244-246: for key in gradients_list[0].keys();
\* g[key] raises KeyError when a mapping lacks the key
RECURSIVE AverageKeys(_, _, _)
AverageKeys(st, gl, j) ==
    IF j > Len(KeySeq) \/ st.raised # "" THEN st
    ELSE LET k == KeySeq[j]
         IN  AverageKeys(
                IF gl[1][k] = 0 THEN st
                ELSE IF \E i \in 1..Len(gl) : gl[i][k] = 0
                THEN [st EXCEPT !.raised = "KeyError"]
                ELSE [raised |-> "",
                      heap |-> Alloc(st.heap, VDiv(KeySum(st.heap, gl, k, 1),
                                                   QInt(Len(gl)))),
                      averaged |-> [st.averaged EXCEPT ![k] = Len(st.heap) + 1]],
                gl, j + 1)

\* training_service.py 240-246: the averaged_gradients handed to
\* trainer.apply_gradients; nothing is computed for an empty list
aggregate_gradients(h, gl) ==
    IF Len(gl) = 0
    THEN [raised |-> "", heap |-> h, out |-> EmptyMap, velocity |-> EmptyMap]
    ELSE LET st == AverageKeys([raised |-> "", heap |-> h, averaged |-> EmptyMap],
                               gl, 1)
         IN  IF st.raised # "" THEN Raise(h, st.raised)
             ELSE [raised |-> "", heap |-> st.heap, out |-> st.averaged,
                   velocity |-> EmptyMap]

call_aggregate_gradients ==
    /\ call.fn = "none"
    /\ previous_velocity.none
    /\ Returns("aggregate_gradients", <<>>, QInt(0), QInt(0),
               aggregate_gradients(heap, gradients_list))

NextAveraging ==
    \/ AddContributor
    \/ SetPreviousVelocity
    \/ call_federated_average
    \/ call_momentum_federated_average
    \/ call_aggregate_gradients

SpecAveraging == Init /\ [][NextAveraging]_vars

(***************************************************************************)
(* Part III.  Properties of the aggregation functions.  They are stated    *)
(* over the values of the arrays: a contributor list is read as a list of  *)
(* functions from keys to arrays, <<>> where the key is absent.            *)
(***************************************************************************)
CallStep(fn) == call.fn = "none" /\ call'.fn = fn

ValuesOf(h, m) == [k \in Keys |-> IF m[k] = 0 THEN <<>> ELSE h[m[k]]]

ValueList(h, gl) == [i \in 1..Len(gl) |-> ValuesOf(h, gl[i])]

\* the contributors of vl that hold key k
Holders(vl, k) == {i \in 1..Len(vl) : vl[i][k] # <<>>}

SameKeys(vl) == \A k \in Keys : Holders(vl, k) \in {{}, 1..Len(vl)}

\* sum over the contributors i >= from that hold k of c[i] * vl[i][k][j]
RECURSIVE ElementSum(_, _, _, _, _)
ElementSum(vl, c, k, j, from) ==
    IF from > Len(vl) THEN QInt(0)
    ELSE QAdd(IF vl[from][k] = <<>> THEN QInt(0) ELSE QMul(c[from], vl[from][k][j]),
              ElementSum(vl, c, k, j, from + 1))

\* for every key some contributor holds: sum_i c[i] * vl[i][k], elementwise
LinearCombination(vl, c) ==
    [k \in Keys |->
        IF Holders(vl, k) = {} THEN <<>>
        ELSE LET shape == Len(vl[CHOOSE i \in Holders(vl, k) : TRUE][k])
             IN  [j \in 1..shape |-> ElementSum(vl, c, k, j, 1)]]

\* the elementwise sum of the arrays of every key, divided by len(vl)
MeanOf(vl) == LinearCombination(vl, [i \in 1..Len(vl) |-> Q(1, Len(vl))])

\* the arrays that existed before the call are what they were
InputsUnmodified == \A id \in 1..Len(heap) : heap'[id] = heap[id]

\* the mapping returned holds new arrays only
ReturnsNewArrays == \A k \in Keys : result'.out[k] = 0 \/ result'.out[k] > Len(heap)

Permuted(gl, p) == [i \in 1..Len(gl) |-> gl[p[i]]]

\* C6: for n >= 1 contributors with the same keys and shapes federated_average
\* returns for every key the elementwise sum divided by n, whatever the
\* order of the contributors.
C6_MeanOfSameKeyContributors ==
    [][(/\ CallStep("federated_average")
        /\ Len(gradients_list) > 0
        /\ SameKeys(ValueList(heap, gradients_list)))
       => /\ result'.raised = ""
          /\ ValuesOf(heap', result'.out) = MeanOf(ValueList(heap, gradients_list))
          /\ \A p \in Permutations(1..Len(gradients_list)) :
                LET r == federated_average(heap, Permuted(gradients_list, p))
                IN  ValuesOf(r.heap, r.out) = ValuesOf(heap', result'.out)]_vars

\* C6 witness: three contributors with key w only, not all equal, averaged
C6_Witness ==
    /\ call.fn = "federated_average"
    /\ result.raised = ""
    /\ Len(gradients_list) = 3
    /\ SameKeys(ValueList(heap, gradients_list))
    /\ gradients_list[1]["w"] # 0
    /\ heap[gradients_list[1]["w"]] # heap[gradients_list[2]["w"]]

\* C7: an empty gradient list raises in federated_average,
\* secure_federated_average and momentum_federated_average; in
\* weighted_federated_average an empty list, a weights list of another
\* length and weights that sum to zero raise.  Nothing is returned and no
\* input is modified.
C7_InvalidInputRaises ==
    [][(\/ /\ \/ CallStep("federated_average")
              \/ CallStep("secure_federated_average")
              \/ CallStep("momentum_federated_average")
           /\ Len(gradients_list) = 0
        \/ /\ CallStep("weighted_federated_average")
           /\ \/ Len(gradients_list) = 0
              \/ Len(call'.weights) # Len(gradients_list)
              \/ QSum(call'.weights, 1) = QInt(0))
       => /\ result'.raised # ""
          /\ result'.out = EmptyMap
          /\ result'.velocity = EmptyMap
          /\ heap' = heap
          /\ gradients_list' = gradients_list
          /\ previous_velocity' = previous_velocity]_vars

\* C7 witness: two contributors, two weights that sum to zero, an error
C7_Witness ==
    /\ call.fn = "weighted_federated_average"
    /\ Len(gradients_list) = 2
    /\ Len(call.weights) = 2
    /\ call.weights[1] # QInt(0)
    /\ QSum(call.weights, 1) = QInt(0)
    /\ result.raised # ""

\* C8: when the contributors do not all have the same keys, a key absent
\* from the first contributor starts from a copy of its first occurrence,
\* later occurrences are added to it, every key is divided by the number
\* of contributors, and the contributors' arrays are left unmodified.
C8_MissingKeysCopied ==
    [][(/\ CallStep("federated_average")
        /\ Len(gradients_list) > 0
        /\ ~SameKeys(ValueList(heap, gradients_list)))
       => /\ result'.raised = ""
          /\ ValuesOf(heap', result'.out) = MeanOf(ValueList(heap, gradients_list))
          /\ ReturnsNewArrays
          /\ InputsUnmodified
          /\ gradients_list' = gradients_list]_vars

\* C8 witness: key w is absent from the first contributor and held by the
\* second and the third
C8_Witness ==
    /\ call.fn = "federated_average"
    /\ result.raised = ""
    /\ Len(gradients_list) = 3
    /\ gradients_list[1]["w"] = 0
    /\ gradients_list[2]["w"] # 0
    /\ gradients_list[3]["w"] # 0
    /\ result.out["w"] # 0

\* weights (already rationals) times a factor
Scaled(weights, f) == [i \in 1..Len(weights) |-> QMul(QInt(f), weights[i])]

AllEqual(weights) == \A i \in 1..Len(weights) : weights[i] = weights[1]

\* C9: weighted_federated_average normalizes the weights to sum to 1 and
\* returns for every key sum_i (w_i / sum of weights) * array_i; a common
\* non-zero factor on the weights changes nothing; with equal weights the
\* result is that of federated_average.
C9_WeightedMean ==
    [][(/\ CallStep("weighted_federated_average")
        /\ Len(gradients_list) > 0
        /\ Len(call'.weights) = Len(gradients_list)
        /\ QSum(call'.weights, 1) # QInt(0))
       => \A weights \in {call'.weights} :
          \A total \in {QSum(weights, 1)} :
          \A vl \in {ValueList(heap, gradients_list)} :
          \A got \in {ValuesOf(heap', result'.out)} :
              /\ result'.raised = ""
              /\ QSum(normalized_weights(weights), 1) = QInt(1)
              /\ got = LinearCombination(vl,
                          [i \in 1..Len(vl) |-> Q(weights[i][1] * total[2],
                                                  weights[i][2] * total[1])])
              /\ \A f \in {2, -3} :
                    \A r \in {weighted_federated_average(heap, gradients_list,
                                                         Scaled(weights, f))} :
                        ValuesOf(r.heap, r.out) = got
              /\ AllEqual(weights) =>
                    \A r \in {federated_average(heap, gradients_list)} :
                        ValuesOf(r.heap, r.out) = got]_vars

\* C9 witness: three contributors with different weights, averaged
C9_Witness ==
    /\ call.fn = "weighted_federated_average"
    /\ result.raised = ""
    /\ Len(gradients_list) = 3
    /\ call.weights[1] # call.weights[2]
    /\ gradients_list[1]["w"] # 0
    /\ gradients_list[2]["w"] # 0

\* the squared L2 norm of all the arrays of one contributor together
RECURSIVE SquaresFrom(_, _)
SquaresFrom(a, j) ==
    IF j > Len(a) THEN QInt(0) ELSE QAdd(QMul(a[j], a[j]), SquaresFrom(a, j + 1))

FlatNormSq(v) == QAdd(SquaresFrom(v["w"], 1), SquaresFrom(v["b"], 1))

\* a contributor as the claim says it enters the mean
ClippedValues(v, bound) ==
    LET norm == Sqrt(FlatNormSq(v))
    IN  IF QLess(bound, norm)
        THEN [k \in Keys |-> [j \in 1..Len(v[k]) |-> QMul(QDiv(bound, norm), v[k][j])]]
        ELSE v

\* C10: secure_federated_average takes each contributor's L2 norm over all
\* of its keys together, scales every array of a contributor whose norm
\* exceeds clipping_bound by clipping_bound / norm, leaves the others
\* unchanged, and returns federated_average of that list; every contributor
\* enters the mean with norm at most clipping_bound.
C10_ClippedMean ==
    [][(CallStep("secure_federated_average") /\ Len(gradients_list) > 0)
       => LET bound == call'.clipping_bound
              vl == ValueList(heap, gradients_list)
              expected == [i \in 1..Len(vl) |-> ClippedValues(vl[i], bound)]
              c == clipped_gradients(heap, gradients_list, bound)
          IN  /\ result'.raised = ""
              /\ ValueList(c.heap, c.clipped) = expected
              /\ ValuesOf(heap', result'.out) = MeanOf(expected)
              /\ \A i \in 1..Len(vl) :
                    ~QLess(QMul(bound, bound), FlatNormSq(ValuesOf(c.heap, c.clipped[i])))
              /\ InputsUnmodified]_vars

\* C10 witness: bound 4, one contributor of norm 5 (clipped) and one of
\* norm 3 (unchanged)
C10_Witness ==
    /\ call.fn = "secure_federated_average"
    /\ result.raised = ""
    /\ call.clipping_bound = QInt(4)
    /\ Len(gradients_list) = 2
    /\ FlatNormSq(ValuesOf(heap, gradients_list[1])) = QInt(25)
    /\ FlatNormSq(ValuesOf(heap, gradients_list[2])) = QInt(9)

\* m * v + (1 - m) * a, elementwise
Blend(m, v, a) == [j \in 1..Len(a) |-> QAdd(QMul(m, v[j]), QMul(QSub(QInt(1), m), a[j]))]

\* C11: momentum_federated_average returns (avg, new_velocity) with avg the
\* result of federated_average; for every key of avg that has a previous
\* velocity new_velocity[key] = momentum * previous_velocity[key] +
\* (1 - momentum) * avg[key]; with previous_velocity None the previous
\* velocity of every key is zero; the caller's previous_velocity mapping
\* and its arrays are not modified.
C11_MomentumUpdate ==
    [][(CallStep("momentum_federated_average") /\ Len(gradients_list) > 0)
       => \A m \in {call'.momentum} :
          \A fa \in {federated_average(heap, gradients_list)} :
          \A avg \in {ValuesOf(heap', result'.out)} :
          \A vel \in {ValuesOf(heap', result'.velocity)} :
          \A prev \in {ValuesOf(heap, previous_velocity.map)} :
              /\ result'.raised = ""
              /\ avg = ValuesOf(fa.heap, fa.out)
              /\ avg = MeanOf(ValueList(heap, gradients_list))
              /\ \A k \in Keys :
                    avg[k] # <<>> =>
                       /\ previous_velocity.none =>
                             vel[k] = Blend(m, zeros_like(avg[k]), avg[k])
                       /\ (~previous_velocity.none /\ prev[k] # <<>>) =>
                             vel[k] = Blend(m, prev[k], avg[k])
              /\ previous_velocity' = previous_velocity
              /\ InputsUnmodified]_vars

\* C11 witness: two contributors averaged with a previous velocity for key
\* w that differs from the average
C11_Witness ==
    /\ call.fn = "momentum_federated_average"
    /\ result.raised = ""
    /\ Len(gradients_list) = 2
    /\ ~previous_velocity.none
    /\ previous_velocity.map["w"] # 0
    /\ result.out["w"] # 0
    /\ heap[previous_velocity.map["w"]] # heap[result.out["w"]]
    /\ heap[result.velocity["w"]] # heap[result.out["w"]]

\* the array of contributor i for key k, all zeros of the key's shape where
\* the contributor lacks the key (some contributor holds it)
ZeroFilled(vl, k, i) ==
    IF vl[i][k] # <<>> THEN vl[i][k]
    ELSE zeros_like(vl[CHOOSE h \in Holders(vl, k) : TRUE][k])

RECURSIVE ZeroFilledSum(_, _, _)
ZeroFilledSum(vl, k, i) ==
    IF i = Len(vl) THEN ZeroFilled(vl, k, i)
    ELSE VAdd(ZeroFilled(vl, k, i), ZeroFilledSum(vl, k, i + 1))

\* C26: for every non-empty list (one shape per key) federated_average
\* returns, for every key some contributor holds, the sum over all the
\* contributors of their arrays, zero-filled where the key is lacking,
\* divided by the number of contributors, whatever the positions of the
\* contributors lacking the key; a key nobody holds is not returned.
C26_ZeroFilledMean ==
    [][(CallStep("federated_average") /\ Len(gradients_list) > 0)
       => \A vl \in {ValueList(heap, gradients_list)} :
          \A out \in {ValuesOf(heap', result'.out)} :
             /\ result'.raised = ""
             /\ \A k \in Keys :
                   IF Holders(vl, k) = {} THEN result'.out[k] = 0
                   ELSE /\ result'.out[k] # 0
                        /\ out[k] = VDiv(ZeroFilledSum(vl, k, 1), QInt(Len(vl)))]_vars

\* C26 witness: of three contributors the second lacks key w, the first
\* lacks key b, and both keys are returned
C26_Witness ==
    /\ call.fn = "federated_average"
    /\ result.raised = ""
    /\ Len(gradients_list) = 3
    /\ gradients_list[1]["w"] # 0
    /\ gradients_list[2]["w"] = 0
    /\ gradients_list[3]["w"] # 0
    /\ gradients_list[1]["b"] = 0
    /\ gradients_list[2]["b"] # 0
    /\ result.out["w"] # 0
    /\ result.out["b"] # 0

\* C27: for a key of the average that has no previous velocity, whether
\* previous_velocity is None or a mapping lacking the key,
\* new_velocity[key] = (1 - momentum) * avg[key].
C27_NoVelocityIsZeroVelocity ==
    [][(CallStep("momentum_federated_average") /\ Len(gradients_list) > 0)
       => \A m \in {call'.momentum} :
          \A avg \in {ValuesOf(heap', result'.out)} :
          \A vel \in {ValuesOf(heap', result'.velocity)} :
             \A k \in Keys :
                (/\ avg[k] # <<>>
                 /\ previous_velocity.none \/ previous_velocity.map[k] = 0)
                   => vel[k] = VScale(QSub(QInt(1), m), avg[k])]_vars

\* C25: for every non-empty list of mappings _aggregate_gradients computes
\* the averaged mapping that federated_average computes for the same list,
\* also when the mappings do not all have the same keys.
C25_SameAsFederatedAverage ==
    [][(CallStep("aggregate_gradients") /\ Len(gradients_list) > 0)
       => \A fa \in {federated_average(heap, gradients_list)} :
             /\ result'.raised = fa.raised
             /\ ValuesOf(heap', result'.out) = ValuesOf(fa.heap, fa.out)]_vars

(***************************************************************************)
(* Part IV.  ai/gradient_utils.py.  A string is a sequence of characters,  *)
(* a byte string a sequence of numbers 0..255.  An array is its shape and  *)
(* its elements in row-major order; an element is the bit pattern of a     *)
(* two-byte element type (float16).  A mapping is the sequence of its      *)
(* items in iteration order.                                               *)
(***************************************************************************)
MaxKeys == 2            \* most keys of a mapping handed to the conversion

\* the printable ASCII characters, code 32 first
Ascii ==
    <<" ", "!", "\"", "#", "$", "%", "&", "'", "(", ")", "*", "+", ",", "-",
      ".", "/", "0", "1", "2", "3", "4", "5", "6", "7", "8", "9", ":", ";",
      "<", "=", ">", "?", "@", "A", "B", "C", "D", "E", "F", "G", "H", "I",
      "J", "K", "L", "M", "N", "O", "P", "Q", "R", "S", "T", "U", "V", "W",
      "X", "Y", "Z", "[", "\\", "]", "^", "_", "backtick", "a", "b", "c", "d", "e",
      "f", "g", "h", "i", "j", "k", "l", "m", "n", "o", "p", "q", "r", "s",
      "t", "u", "v", "w", "x", "y", "z", "{", "|", "}", "~">>

Ord(c) == 31 + CHOOSE i \in 1..Len(Ascii) : Ascii[i] = c
Chr(b) == Ascii[b - 31]

\* str.encode('utf-8') and bytes.decode('utf-8') on ASCII text
encode(str) == [i \in 1..Len(str) |-> Ord(str[i])]
decode(bytes) == [i \in 1..Len(bytes) |-> Chr(bytes[i])]

Digits == <<"0", "1", "2", "3", "4", "5", "6", "7", "8", "9">>
IsDigit(c) == \E i \in 1..10 : Digits[i] = c
DigitValue(c) == (CHOOSE i \in 1..10 : Digits[i] = c) - 1

\* json.dumps of a non-negative int
RECURSIVE json_dumps_int(_)
json_dumps_int(n) ==
    IF n < 10 THEN <<Digits[n + 1]>>
    ELSE json_dumps_int(n \div 10) \o <<Digits[(n % 10) + 1]>>

\* json.dumps of a str: quotes and backslashes are escaped
RECURSIVE json_escape(_, _)
json_escape(str, i) ==
    IF i > Len(str) THEN <<>>
    ELSE (IF str[i] \in {"\"", "\\"} THEN <<"\\", str[i]>> ELSE <<str[i]>>)
         \o json_escape(str, i + 1)

json_dumps_str(str) == <<"\"">> \o json_escape(str, 1) \o <<"\"">>

\* the rendered items joined by ', '
RECURSIVE json_join(_, _)
json_join(items, i) ==
    IF i > Len(items) THEN <<>>
    ELSE (IF i > 1 THEN <<",", " ">> ELSE <<>>) \o items[i] \o json_join(items, i + 1)

json_dumps_list(items) == <<"[">> \o json_join(items, 1) \o <<"]">>

\* json.dumps(metadata), gradient_utils.py 47-55: the keys 'keys', 'shapes'
\* and 'dtype' in this order, default separators
json_dumps(metadata) ==
    <<"{">> \o json_dumps_str(<<"k", "e", "y", "s">>) \o <<":", " ">>
    \o json_dumps_list([i \in 1..Len(metadata.keys) |-> json_dumps_str(metadata.keys[i])])
    \o <<",", " ">> \o json_dumps_str(<<"s", "h", "a", "p", "e", "s">>) \o <<":", " ">>
    \o json_dumps_list([i \in 1..Len(metadata.shapes) |->
          json_dumps_list([j \in 1..Len(metadata.shapes[i]) |->
                              json_dumps_int(metadata.shapes[i][j])])])
    \o <<",", " ">> \o json_dumps_str(<<"d", "t", "y", "p", "e">>) \o <<":", " ">>
    \o json_dumps_str(metadata.dtype) \o <<"}">>

\* json.loads: a parsed value is [t |-> "str", v |-> characters],
\* [t |-> "int", v |-> number], [t |-> "list", v |-> values] or
\* [t |-> "dict", k |-> keys, v |-> values]; a parse step returns
\* [ok, val, pos], pos the index after the value
JsonFail == [ok |-> FALSE, val |-> [t |-> "none"], pos |-> 0]

RECURSIVE SkipSpace(_, _)
SkipSpace(text, i) ==
    IF i <= Len(text) /\ text[i] = " " THEN SkipSpace(text, i + 1) ELSE i

\* the characters up to the closing quote, escapes undone
RECURSIVE json_string(_, _, _)
json_string(text, i, acc) ==
    IF i > Len(text) THEN JsonFail
    ELSE IF text[i] = "\"" THEN [ok |-> TRUE, val |-> [t |-> "str", v |-> acc], pos |-> i + 1]
    ELSE IF text[i] = "\\"
    THEN IF i + 1 > Len(text) THEN JsonFail
         ELSE json_string(text, i + 2, Append(acc, text[i + 1]))
    ELSE json_string(text, i + 1, Append(acc, text[i]))

RECURSIVE json_int(_, _, _)
json_int(text, i, acc) ==
    IF i <= Len(text) /\ IsDigit(text[i])
    THEN json_int(text, i + 1, 10 * acc + DigitValue(text[i]))
    ELSE [ok |-> TRUE, val |-> [t |-> "int", v |-> acc], pos |-> i]

RECURSIVE json_value(_, _)
RECURSIVE json_items(_, _, _)
RECURSIVE json_members(_, _, _, _)

\* the items of a list after '[' or after a ','
json_items(text, i, acc) ==
    LET r == json_value(text, i)
        j == SkipSpace(text, r.pos)
    IN  IF ~r.ok \/ j > Len(text) THEN JsonFail
        ELSE IF text[j] = "," THEN json_items(text, j + 1, Append(acc, r.val))
        ELSE IF text[j] = "]"
        THEN [ok |-> TRUE, val |-> [t |-> "list", v |-> Append(acc, r.val)], pos |-> j + 1]
        ELSE JsonFail

\* the members of an object after '{' or after a ','
json_members(text, i, ks, vs) ==
    LET a == SkipSpace(text, i)
        k == IF a <= Len(text) /\ text[a] = "\"" THEN json_string(text, a + 1, <<>>)
             ELSE JsonFail
        c == SkipSpace(text, k.pos)
        r == IF k.ok /\ c <= Len(text) /\ text[c] = ":" THEN json_value(text, c + 1)
             ELSE JsonFail
        j == SkipSpace(text, r.pos)
    IN  IF ~r.ok \/ j > Len(text) THEN JsonFail
        ELSE IF text[j] = ","
        THEN json_members(text, j + 1, Append(ks, k.val.v), Append(vs, r.val))
        ELSE IF text[j] = "}"
        THEN [ok |-> TRUE,
              val |-> [t |-> "dict", k |-> Append(ks, k.val.v), v |-> Append(vs, r.val)],
              pos |-> j + 1]
        ELSE JsonFail

json_value(text, i) ==
    LET a == SkipSpace(text, i)
    IN  IF a > Len(text) THEN JsonFail
        ELSE IF text[a] = "\"" THEN json_string(text, a + 1, <<>>)
        ELSE IF IsDigit(text[a]) THEN json_int(text, a, 0)
        ELSE IF text[a] = "["
        THEN LET b == SkipSpace(text, a + 1)
             IN  IF b <= Len(text) /\ text[b] = "]"
                 THEN [ok |-> TRUE, val |-> [t |-> "list", v |-> <<>>], pos |-> b + 1]
                 ELSE json_items(text, a + 1, <<>>)
        ELSE IF text[a] = "{"
        THEN LET b == SkipSpace(text, a + 1)
             IN  IF b <= Len(text) /\ text[b] = "}"
                 THEN [ok |-> TRUE, val |-> [t |-> "dict", k |-> <<>>, v |-> <<>>],
                       pos |-> b + 1]
                 ELSE json_members(text, a + 1, <<>>, <<>>)
        ELSE JsonFail

\* json.loads(text): one value and nothing after it
json_loads(text) ==
    LET r == json_value(text, 1)
    IN  IF r.ok /\ SkipSpace(text, r.pos) > Len(text) THEN r ELSE JsonFail

\* d[key] of a parsed object (the last member of that name)
Lookup(d, key) ==
    d.v[CHOOSE i \in 1..Len(d.k) :
            d.k[i] = key /\ \A j \in (i + 1)..Len(d.k) : d.k[j] # key]

\* the Python values of a parsed list of strings / of lists of ints
ListOfStr(l) == [i \in 1..Len(l.v) |-> l.v[i].v]
ListOfShapes(l) == [i \in 1..Len(l.v) |-> [j \in 1..Len(l.v[i].v) |-> l.v[i].v[j].v]]

\* seq[a:b] of Python (0-based, clamped to the sequence)
Slice(seq, a, b) ==
    LET hi == IF b > Len(seq) THEN Len(seq) ELSE b
    IN  IF a >= hi THEN <<>> ELSE SubSeq(seq, a + 1, hi)

RECURSIVE Concat(_, _)
Concat(seqs, i) == IF i > Len(seqs) THEN <<>> ELSE seqs[i] \o Concat(seqs, i + 1)

RECURSIVE Power(_, _)
Power(b, e) == IF e = 0 THEN 1 ELSE b * Power(b, e - 1)

\* dtype.name of the element type and of np.array([])
float16 == <<"f", "l", "o", "a", "t", "1", "6">>
float64 == <<"f", "l", "o", "a", "t", "6", "4">>

\* np.dtype(name).itemsize
itemsize(dtype) == IF dtype = float16 THEN 2 ELSE 8

\* the bytes of one element, least significant first (native byte order)
ElementBytes(e, n) == [j \in 1..n |-> (e \div Power(256, j - 1)) % 256]

RECURSIVE ElementOf(_, _)
ElementOf(bytes, j) ==
    IF j > Len(bytes) THEN 0 ELSE bytes[j] * Power(256, j - 1) + ElementOf(bytes, j + 1)

\* ndarray.tobytes()
tobytes(flat, dtype) ==
    Concat([i \in 1..Len(flat) |-> ElementBytes(flat[i], itemsize(dtype))], 1)

\* np.frombuffer(data_bytes, dtype=dtype): a buffer that is no whole number
\* of elements raises ValueError
frombuffer(bytes, dtype) ==
    LET n == itemsize(dtype)
    IN  IF Len(bytes) % n # 0 THEN [raised |-> "ValueError", flat |-> <<>>]
        ELSE [raised |-> "",
              flat |-> [i \in 1..(Len(bytes) \div n) |->
                           ElementOf(SubSeq(bytes, (i - 1) * n + 1, i * n), 1)]]

RECURSIVE Product(_, _)
Product(shape, j) == IF j > Len(shape) THEN 1 ELSE shape[j] * Product(shape, j + 1)

\* np.prod(shape): the product as an integer; of an empty shape the
\* float 1.0
np_prod(shape) == [float |-> Len(shape) = 0, val |-> Product(shape, 1)]

\* int.to_bytes(4, byteorder='big')
to_bytes(n) == [j \in 1..4 |-> (n \div Power(256, 4 - j)) % 256]

\* int.from_bytes(data[:4], byteorder='big')
RECURSIVE from_bytes(_, _)
from_bytes(bytes, j) ==
    IF j > Len(bytes) THEN 0
    ELSE bytes[j] * Power(256, Len(bytes) - j) + from_bytes(bytes, j + 1)

\* mutant: the length prefix is written least significant byte first
convert_gradients_to_bytes_LittleEndian(g) ==
    LET combined == Concat([i \in 1..Len(g) |-> g[i].arr.flat], 1)
        metadata == [keys |-> [i \in 1..Len(g) |-> g[i].key],
                     shapes |-> [i \in 1..Len(g) |-> g[i].arr.shape],
                     dtype |-> IF Len(combined) > 0 THEN float16 ELSE float64]
        metadata_bytes == encode(json_dumps(metadata))
        prefix == to_bytes(Len(metadata_bytes))
    IN  [j \in 1..4 |-> prefix[5 - j]] \o metadata_bytes \o tobytes(combined, float16)

\* gradient_utils.py 23-62
convert_gradients_to_bytes(g) ==
    LET combined == Concat([i \in 1..Len(g) |-> g[i].arr.flat], 1)
        metadata == [keys |-> [i \in 1..Len(g) |-> g[i].key],
                     shapes |-> [i \in 1..Len(g) |-> g[i].arr.shape],
                     dtype |-> IF Len(combined) > 0 THEN float16 ELSE float64]
        metadata_bytes == encode(json_dumps(metadata))
        data_bytes == tobytes(combined, float16)
    IN  to_bytes(Len(metadata_bytes)) \o metadata_bytes \o data_bytes

\* gradients[key] = value of a dict: a key already present keeps its place
DictSet(map, key, arr) ==
    IF \E i \in 1..Len(map) : map[i].key = key
    THEN [i \in 1..Len(map) |-> IF map[i].key = key THEN [key |-> key, arr |-> arr]
                                ELSE map[i]]
    ELSE Append(map, [key |-> key, arr |-> arr])

\* gradient_utils.py 93-97: for key, shape in zip(keys, shapes).  A float
\* size (np.prod of an empty shape) is no slice index: TypeError.
RECURSIVE Split(_, _, _, _, _, _)
Split(keys, shapes, combined, i, idx, map) ==
    IF i > Len(keys) \/ i > Len(shapes) THEN [raised |-> "", map |-> map]
    ELSE LET size == np_prod(shapes[i])
             grad_flat == Slice(combined, idx, idx + size.val)
         IN  IF size.float THEN [raised |-> "TypeError", map |-> <<>>]
             ELSE IF Len(grad_flat) # size.val THEN [raised |-> "ValueError", map |-> <<>>]
             ELSE Split(keys, shapes, combined, i + 1, idx + size.val,
                        DictSet(map, keys[i], [shape |-> shapes[i], flat |-> grad_flat]))

\* gradient_utils.py 64-99
convert_bytes_to_gradients(data) ==
    LET metadata_length == from_bytes(Slice(data, 0, 4), 1)
        metadata_bytes == Slice(data, 4, 4 + metadata_length)
        parsed == json_loads(decode(metadata_bytes))
        data_bytes == Slice(data, 4 + metadata_length, Len(data))
    IN  IF ~parsed.ok THEN [raised |-> "JSONDecodeError", map |-> <<>>]
        ELSE LET metadata == parsed.val
                 combined == frombuffer(data_bytes, Lookup(metadata, <<"d", "t", "y", "p", "e">>).v)
             IN  IF combined.raised # "" THEN [raised |-> combined.raised, map |-> <<>>]
                 ELSE Split(ListOfStr(Lookup(metadata, <<"k", "e", "y", "s">>)),
                            ListOfShapes(Lookup(metadata, <<"s", "h", "a", "p", "e", "s">>)),
                            combined.flat, 1, 0, <<>>)

(***************************************************************************)
(* Part IV.  Callers: a mapping is drawn, converted to bytes and back.     *)
(***************************************************************************)
\* keys: plain, with a digit, and with a character JSON escapes
KeyNames == {<<"w">>, <<"b", "1">>, <<"a", "\"">>}

\* element bit patterns: 0x0102 and 0x3C00 (1.0)
ElementBits == {258, 15360}

\* the shapes of the arrays: 0-d, empty, 1-d, 2-d and a 1-d array of 12
SmallShapes == {<<>>, <<0>>, <<2>>, <<1, 2>>}

Arrays ==
    UNION {{[shape |-> sh, flat |-> f] : f \in [1..Product(sh, 1) -> ElementBits]} :
              sh \in SmallShapes}
    \cup {[shape |-> <<12>>, flat |-> [j \in 1..12 |-> 258]]}

GradientMappings ==
    UNION {{m \in [1..n -> [key : KeyNames, arr : Arrays]] :
               \A i, j \in 1..n : i # j => m[i].key # m[j].key} : n \in 0..MaxKeys}

\* the caller holds a mapping of gradients
SetGradients ==
    /\ ser_pc = "idle"
    /\ gradients' \in GradientMappings
    /\ ser_pc' = "given"
    /\ UNCHANGED <<blob, restored>>
    /\ UNCHANGED not_ser

call_convert_gradients_to_bytes ==
    /\ ser_pc = "given"
    /\ blob' = convert_gradients_to_bytes(gradients)
    /\ ser_pc' = "serialized"
    /\ UNCHANGED <<gradients, restored>>
    /\ UNCHANGED not_ser

call_convert_bytes_to_gradients ==
    /\ ser_pc = "serialized"
    /\ restored' = convert_bytes_to_gradients(blob)
    /\ ser_pc' = "restored"
    /\ UNCHANGED <<gradients, blob>>
    /\ UNCHANGED not_ser

NextSerialization ==
    \/ SetGradients
    \/ call_convert_gradients_to_bytes
    \/ call_convert_bytes_to_gradients

SpecSerialization == Init /\ [][NextSerialization]_vars

\* C12: convert_bytes_to_gradients(convert_gradients_to_bytes(g)) is a
\* mapping with the keys of g in the same order, the same shape for every
\* key and the same element values, for every mapping g of arrays of one
\* element type.
C12_RoundTrip ==
    ser_pc = "restored" => (restored.raised = "" /\ restored.map = gradients)

\* the sum over the shapes of the product of their dimensions
RECURSIVE SizeSum(_, _)
SizeSum(shapes, i) ==
    IF i > Len(shapes) THEN 0 ELSE Product(shapes[i], 1) + SizeSum(shapes, i + 1)

\* C13: the bytes are a 4-byte big-endian length L, then L bytes of JSON
\* metadata listing the keys and their shapes in iteration order, then the
\* flattened elements concatenated in that key order; the number of
\* elements of the data part is the sum over the keys of the product of
\* the recorded shape.
C13_ByteLayout ==
    ser_pc \in {"serialized", "restored"} =>
       \E L \in {n \in 0..(Len(blob) - 4) :
                    blob[1] * 16777216 + blob[2] * 65536 + blob[3] * 256 + blob[4] = n} :
          \A parsed \in {json_loads(decode(SubSeq(blob, 5, 4 + L)))} :
          \A data_part \in {SubSeq(blob, 5 + L, Len(blob))} :
             /\ parsed.ok
             /\ ListOfStr(Lookup(parsed.val, <<"k", "e", "y", "s">>))
                   = [i \in 1..Len(gradients) |-> gradients[i].key]
             /\ ListOfShapes(Lookup(parsed.val, <<"s", "h", "a", "p", "e", "s">>))
                   = [i \in 1..Len(gradients) |-> gradients[i].arr.shape]
             /\ data_part = Concat([i \in 1..Len(gradients) |->
                               Concat([j \in 1..Len(gradients[i].arr.flat) |->
                                          <<gradients[i].arr.flat[j] % 256,
                                            gradients[i].arr.flat[j] \div 256>>], 1)], 1)
             /\ Len(data_part) = 2 * SizeSum(
                   ListOfShapes(Lookup(parsed.val, <<"s", "h", "a", "p", "e", "s">>)), 1)

\* C13 witness: two keys, arrays of 2 elements of shapes (2,) and (1, 2)
C13_Witness ==
    /\ ser_pc = "serialized"
    /\ Len(gradients) = 2
    /\ gradients[1].arr.shape = <<2>>
    /\ gradients[2].arr.shape = <<1, 2>>
    /\ gradients[1].arr.flat # gradients[2].arr.flat
    /\ Len(blob) > 12

(***************************************************************************)
(* Part V.  services/training_service.py.  A submission is the number of   *)
(* the call that made it and whether its gradient_data holds the key of    *)
(* the model's array.  The statements of a call are separate steps, a      *)
(* finer interleaving than the event loop's, which switches tasks only at  *)
(* an await that suspends.                                                 *)
(***************************************************************************)
\* params.get("aggregation_threshold", 3)
Thresholds == {2, 3}

\* lines 18-58: the session entry and its lock are created
ts_start_training ==
    /\ ~active_sessions.present
    /\ \E t \in Thresholds : \E dataset_cid \in BOOLEAN :
          active_sessions' =
             [present |-> TRUE, threshold |-> t,
              status |-> IF dataset_cid THEN "training" ELSE "preparing",
              logs |-> IF dataset_cid THEN <<"initialized", "Using dataset">>
                       ELSE <<"initialized">>,
              result |-> FALSE, error |-> FALSE, end_time |-> FALSE]
    /\ session_gradients' = <<>>
    /\ session_locks' = 0
    /\ UNCHANGED <<submit, applied>>
    /\ UNCHANGED not_ts

\* lines 214-215: an unknown session returns False
submit_gradient_L214 ==
    \E c \in 1..MaxSubmit : \E k \in BOOLEAN :
       /\ submit[c].pc = "idle"
       /\ submit' = [submit EXCEPT ![c] =
             IF active_sessions.present
             THEN [@ EXCEPT !.pc = "L217", !.has_key = k]
             ELSE [@ EXCEPT !.pc = "done", !.has_key = k, !.returned = "False"]]
       /\ UNCHANGED <<active_sessions, session_gradients, session_locks, applied>>
       /\ UNCHANGED not_ts

\* mutant: the lock is taken whether or not another call holds it
LockFree_Always == TRUE

\* asyncio.Lock.acquire proceeds only when the lock is not held
LockFree == session_locks = 0

\* line 217: async with self.session_locks[session_id]
submit_gradient_L217 ==
    \E c \in 1..MaxSubmit :
       /\ submit[c].pc = "L217"
       /\ LockFree
       /\ session_locks' = c
       /\ submit' = [submit EXCEPT ![c].pc = "L219"]
       /\ UNCHANGED <<active_sessions, session_gradients, applied>>
       /\ UNCHANGED not_ts

\* lines 218-223: the submission is appended
submit_gradient_L219 ==
    \E c \in 1..MaxSubmit :
       /\ submit[c].pc = "L219"
       /\ session_gradients' =
             Append(session_gradients, [call |-> c, has_key |-> submit[c].has_key])
       /\ submit' = [submit EXCEPT ![c].pc = "L227"]
       /\ UNCHANGED <<active_sessions, session_locks, applied>>
       /\ UNCHANGED not_ts

\* lines 226-228: the threshold check
submit_gradient_L227 ==
    \E c \in 1..MaxSubmit :
       /\ submit[c].pc = "L227"
       /\ submit' = [submit EXCEPT ![c].pc =
             IF Len(session_gradients) >= active_sessions.threshold
             THEN "L237" ELSE "L230"]
       /\ UNCHANGED <<active_sessions, session_gradients, session_locks, applied>>
       /\ UNCHANGED not_ts

\* line 237: gradients_list = [g["gradient_data"] for g in session["gradients"]]
aggregate_gradients_L237 ==
    \E c \in 1..MaxSubmit :
       /\ submit[c].pc = "L237"
       /\ submit' = [submit EXCEPT ![c].pc = "L243",
                                   ![c].gradients_list = session_gradients]
       /\ UNCHANGED <<active_sessions, session_gradients, session_locks, applied>>
       /\ UNCHANGED not_ts

\* g[key] for a key of gradients_list[0] that g lacks
KeyError(gl) == Len(gl) > 0 /\ gl[1].has_key /\ \E i \in 1..Len(gl) : ~gl[i].has_key

\* lines 240-243: the average over the keys of the first submission; a
\* KeyError leaves the call through the lock's __aexit__
aggregate_gradients_L243 ==
    \E c \in 1..MaxSubmit :
       /\ submit[c].pc = "L243"
       /\ submit' = [submit EXCEPT ![c] =
             IF KeyError(submit[c].gradients_list)
             THEN [@ EXCEPT !.pc = "L230", !.returned = "KeyError"]
             ELSE [@ EXCEPT !.pc = "L247"]]
       /\ UNCHANGED <<active_sessions, session_gradients, session_locks, applied>>
       /\ UNCHANGED not_ts

\* lines 246-247: trainer.apply_gradients(averaged_gradients)
aggregate_gradients_L247 ==
    \E c \in 1..MaxSubmit :
       /\ submit[c].pc = "L247"
       /\ applied' = Append(applied, submit[c].gradients_list)
       /\ submit' = [submit EXCEPT ![c].pc = "L250"]
       /\ UNCHANGED <<active_sessions, session_gradients, session_locks>>
       /\ UNCHANGED not_ts

\* line 250: session["gradients"] = []
aggregate_gradients_L250 ==
    \E c \in 1..MaxSubmit :
       /\ submit[c].pc = "L250"
       /\ session_gradients' = <<>>
       /\ submit' = [submit EXCEPT ![c].pc = "L230"]
       /\ UNCHANGED <<active_sessions, session_locks, applied>>
       /\ UNCHANGED not_ts

\* line 230 and the end of the async with: the lock is released and the
\* call returns True (or raises)
submit_gradient_L230 ==
    \E c \in 1..MaxSubmit :
       /\ submit[c].pc = "L230"
       /\ session_locks' = 0
       /\ submit' = [submit EXCEPT ![c] =
             [@ EXCEPT !.pc = "done",
                       !.returned = IF @ = "KeyError" THEN @ ELSE "True"]]
       /\ UNCHANGED <<active_sessions, session_gradients, applied>>
       /\ UNCHANGED not_ts

NextTrainingService ==
    \/ ts_start_training
    \/ submit_gradient_L214
    \/ submit_gradient_L217
    \/ submit_gradient_L219
    \/ submit_gradient_L227
    \/ aggregate_gradients_L237
    \/ aggregate_gradients_L243
    \/ aggregate_gradients_L247
    \/ aggregate_gradients_L250
    \/ submit_gradient_L230

SpecTrainingService == Init /\ [][NextTrainingService]_vars

(***************************************************************************)
(* Part V.  The status of a session (training_service.py 136-188).  None   *)
(* of these methods awaits: each is one step.  A call for an unknown       *)
(* session does nothing.  The log is capped at MaxLogs entries.            *)
(***************************************************************************)
\* logs.append({... "message": message})
AppendLog(s, message) == [s EXCEPT !.logs = Append(@, message)]

\* lines 136-141
ts_complete_training ==
    /\ active_sessions.present
    /\ active_sessions' = [active_sessions EXCEPT !.status = "completed",
                                                  !.result = TRUE,
                                                  !.end_time = TRUE]
    /\ UNCHANGED <<session_gradients, session_locks, submit, applied>>
    /\ UNCHANGED not_ts

\* lines 143-148
ts_fail_training ==
    /\ active_sessions.present
    /\ active_sessions' = [active_sessions EXCEPT !.status = "failed",
                                                  !.error = TRUE,
                                                  !.end_time = TRUE]
    /\ UNCHANGED <<session_gradients, session_locks, submit, applied>>
    /\ UNCHANGED not_ts

\* lines 150-166
ts_stop_training ==
    /\ active_sessions.present
    /\ Len(active_sessions.logs) < MaxLogs
    /\ active_sessions' =
          AppendLog([active_sessions EXCEPT !.status = "stopped", !.end_time = TRUE],
                    "Training stopped by user")
    /\ UNCHANGED <<session_gradients, session_locks, submit, applied>>
    /\ UNCHANGED not_ts

\* lines 168-177
ts_pause_training ==
    /\ active_sessions.present
    /\ Len(active_sessions.logs) < MaxLogs
    /\ active_sessions' =
          IF active_sessions.status = "training"
          THEN AppendLog([active_sessions EXCEPT !.status = "paused"],
                         "Training paused by user")
          ELSE active_sessions
    /\ UNCHANGED <<session_gradients, session_locks, submit, applied>>
    /\ UNCHANGED not_ts

\* lines 179-188
ts_resume_training ==
    /\ active_sessions.present
    /\ Len(active_sessions.logs) < MaxLogs
    /\ active_sessions' =
          IF active_sessions.status = "paused"
          THEN AppendLog([active_sessions EXCEPT !.status = "training"],
                         "Training resumed by user")
          ELSE active_sessions
    /\ UNCHANGED <<session_gradients, session_locks, submit, applied>>
    /\ UNCHANGED not_ts

NextSessionStatus ==
    \/ ts_start_training
    \/ ts_complete_training
    \/ ts_fail_training
    \/ ts_stop_training
    \/ ts_pause_training
    \/ ts_resume_training

SpecSessionStatus == Init /\ [][NextSessionStatus]_vars

\* the calls whose submission has been appended
Appended == {c \in 1..MaxSubmit : submit[c].pc \in {"L227", "L237", "L243", "L247", "L250",
                                                    "L230", "done"}
                                  /\ submit[c].returned # "False"}

\* the aggregation rounds that used the submission of call c
RoundsOf(c) == {r \in 1..Len(applied) : \E i \in 1..Len(applied[r]) : applied[r][i].call = c}

Pending(c) == \E i \in 1..Len(session_gradients) : session_gradients[i].call = c

\* no call is between taking and releasing the lock
Quiescent == \A c \in 1..MaxSubmit : submit[c].pc \in {"idle", "L217", "done"}

\* C16: under every interleaving of concurrent submit_gradient calls for
\* one session every submitted gradient is used in exactly one aggregation
\* round or is still in the pending list: none is lost, none is aggregated
\* twice.
C16_EachGradientOnce ==
    /\ \A c \in Appended : Cardinality(RoundsOf(c)) <= 1
    /\ \A c \in Appended : RoundsOf(c) # {} \/ Pending(c)
    /\ Quiescent => \A c \in Appended : (RoundsOf(c) = {}) = Pending(c)
    /\ \A r \in 1..Len(applied) : \A i, j \in 1..Len(applied[r]) :
          applied[r][i].call = applied[r][j].call => i = j

\* C16 witness: a call has applied a round and not yet cleared the list
\* while another call waits for the lock
C16_Witness ==
    /\ Len(applied) = 1
    /\ \E c, w \in 1..MaxSubmit :
          /\ submit[c].pc = "L250"
          /\ session_locks = c
          /\ submit[w].pc = "L217"

\* C24: when a submit_gradient call on the session finishes, the pending
\* list holds fewer than aggregation_threshold entries.
C24_PendingBelowThreshold ==
    [][\A c \in 1..MaxSubmit :
          (submit[c].pc = "L230" /\ submit'[c].pc = "done")
             => Len(session_gradients') < active_sessions.threshold]_vars

Terminal == {"completed", "failed", "stopped"}

\* C28: once the status of a session is 'completed', 'failed' or 'stopped'
\* no call of pause_training, resume_training, stop_training,
\* complete_training or fail_training changes it; pause_training changes
\* the status only from 'training' to 'paused', resume_training only from
\* 'paused' to 'training', and they leave the session unchanged otherwise.
C28_TerminalAbsorbing ==
    [][active_sessions.present =>
         /\ active_sessions.status \in Terminal
               => active_sessions'.status = active_sessions.status
         /\ ts_pause_training =>
               IF active_sessions.status = "training"
               THEN active_sessions'.status = "paused"
               ELSE active_sessions' = active_sessions
         /\ ts_resume_training =>
               IF active_sessions.status = "paused"
               THEN active_sessions'.status = "training"
               ELSE active_sessions' = active_sessions]_vars

(***************************************************************************)
(* Part VI.  ai/models/tiny_cnn.py.  A matrix is a sequence of rows of     *)
(* exact rationals.  The network keeps the shape of the source (dense      *)
(* layers, ReLU on the hidden ones, softmax on the last) with small layer  *)
(* sizes: one input feature, two hidden layers of one unit (128 and 64 in *)
(* the source) and two classes.  Layer n of the model is "layer_<n-1>".    *)
(***************************************************************************)
input_size == 1

hidden_sizes == <<1, 1>>

num_classes == 2

layer_sizes == <<input_size>> \o hidden_sizes \o <<num_classes>>

layers == 1..(Len(layer_sizes) - 1)

\* values a weight, a bias and an input feature are drawn from
WeightValues == {-1, 0, 1}

BiasValues == {0, 1}

FeatureValues == {-1, 1}

\* an r x c matrix with entries drawn from the integers `values`
Matrices(r, c, values) == [1..r -> [1..c -> {QInt(v) : v \in values}]]

\* the one-hot rows of num_classes entries
OneHot == {[c \in 1..num_classes |-> QInt(IF c = k THEN 1 ELSE 0)] : k \in 1..num_classes}

\* rows a softmax can return, to the precision of the model
Probabilities ==
    {<<Q(1, 4), Q(3, 4)>>, <<Q(1, 2), Q(1, 2)>>, <<Q(3, 4), Q(1, 4)>>}

\* an array whose elements are computed once, when it is made
ndarray(a) == a \o <<>>

RECURSIVE DotSum(_, _, _, _)
DotSum(row, B, c, k) ==
    IF k > Len(row) THEN QInt(0)
    ELSE QAdd(QMul(row[k], B[k][c]), DotSum(row, B, c, k + 1))

\* np.dot(A, B)
dot(A, B) ==
    ndarray([r \in 1..Len(A) |->
        ndarray([c \in 1..Len(B[1]) |-> DotSum(A[r], B, c, 1)])])

\* A.T
T(A) == ndarray([c \in 1..Len(A[1]) |-> ndarray([r \in 1..Len(A) |-> A[r][c]])])

\* A + b, b of shape (1, n) broadcast over the rows of A
add(A, b) ==
    ndarray([r \in 1..Len(A) |->
        ndarray([c \in 1..Len(A[r]) |-> QAdd(A[r][c], b[1][c])])])

\* A - B
subtract(A, B) ==
    ndarray([r \in 1..Len(A) |->
        ndarray([c \in 1..Len(A[r]) |-> QSub(A[r][c], B[r][c])])])

\* A / n
divide(A, n) ==
    ndarray([r \in 1..Len(A) |->
        ndarray([c \in 1..Len(A[r]) |-> QDiv(A[r][c], QInt(n))])])

\* np.maximum(0, z)
maximum0(z) ==
    ndarray([r \in 1..Len(z) |->
        ndarray([c \in 1..Len(z[r]) |->
            IF QLess(z[r][c], QInt(0)) THEN QInt(0) ELSE z[r][c]])])

RECURSIVE ColumnSum(_, _, _)
ColumnSum(A, c, r) ==
    IF r > Len(A) THEN QInt(0) ELSE QAdd(A[r][c], ColumnSum(A, c, r + 1))

\* np.mean(A, axis=0, keepdims=True)
mean0(A) ==
    <<ndarray([c \in 1..Len(A[1]) |-> QDiv(ColumnSum(A, c, 1), QInt(Len(A)))])>>

\* the activation after the first n layers, each followed by ReLU, and the
\* pre-activation z of layer n
RECURSIVE Activation(_, _, _, _)
Activation(w, b, X, n) ==
    IF n = 0 THEN X
    ELSE maximum0(add(dot(Activation(w, b, X, n - 1), w[n]), b[n]))

PreActivation(w, b, X, n) == add(dot(Activation(w, b, X, n - 1), w[n]), b[n])

\* exp_z / sum(exp_z) of the rows of z.  exp is not a rational function: the
\* model admits every row of Probabilities ordered as the row of z is
\* (a larger logit has the larger probability, equal logits equal ones).
softmax(z) ==
    {out \in [1..Len(z) -> Probabilities] :
        \A r \in 1..Len(z) : \A i, j \in 1..Len(z[r]) :
            QLess(z[r][i], z[r][j]) <=> QLess(out[r][i], out[r][j])}

\* the outputs forward(X) may return
forward(w, b, X) == softmax(PreActivation(w, b, X, Len(w)))

\* dz of layer n: output - y for the last layer, and for a hidden layer the
\* next layer's dz times that layer's transposed weights
RECURSIVE Delta(_, _, _)
Delta(w, dz, n) ==
    IF n = Len(w) THEN dz ELSE dot(Delta(w, dz, n + 1), T(w[n + 1]))

\* dz with the ReLU derivative applied: 0 where the pre-activation z is <= 0
relu_mask(dz, z) ==
    ndarray([r \in 1..Len(dz) |->
        ndarray([c \in 1..Len(dz[r]) |->
            IF QLess(QInt(0), z[r][c]) THEN dz[r][c] ELSE QInt(0)])])

\* the delta of layer n of the cross-entropy loss of softmax
RECURSIVE TrueDelta(_, _, _, _, _)
TrueDelta(w, b, X, dz, n) ==
    IF n = Len(w) THEN dz
    ELSE relu_mask(dot(TrueDelta(w, b, X, dz, n + 1), T(w[n + 1])),
                   PreActivation(w, b, X, n))

\* the gradients of a layer from the activation that enters it and its dz:
\* np.dot(activation_prev.T, dz) / batch_size and np.mean(dz, axis=0)
LayerGradient(activation_prev, dz) ==
    [weights |-> divide(dot(T(activation_prev), dz), Len(dz)),
     biases |-> mean0(dz)]

\* the gradient of the mean cross-entropy loss of the batch
TrueGradient(w, b, X, y, output) ==
    ndarray([n \in 1..Len(w) |->
        LayerGradient(Activation(w, b, X, n - 1),
                      TrueDelta(w, b, X, subtract(output, y), n))])

\* mutant: backward with the ReLU derivative applied to every hidden dz
backward_Masked(w, b, X, y, output) == TrueGradient(w, b, X, y, output)

\* backward(X, y, output): gradients[n] holds "layer_<n-1>_weights" and
\* "layer_<n-1>_biases"
backward(w, b, X, y, output) ==
    ndarray([n \in 1..Len(w) |->
        LayerGradient(Activation(w, b, X, n - 1), Delta(w, subtract(output, y), n))])

\* the values self.weights (self.biases, of shape (1, n)) may hold for the
\* first n layers
RECURSIVE Parameters(_, _)
Parameters(n, bias) ==
    IF n = 0 THEN {<<>>}
    ELSE {Append(ps, m) :
            ps \in Parameters(n - 1, bias),
            m \in IF bias THEN Matrices(1, layer_sizes[n + 1], BiasValues)
                  ELSE Matrices(layer_sizes[n], layer_sizes[n + 1], WeightValues)}

\* TinyCNN(...) and set_weights: the parameters the step runs on
TinyCNN_init ==
    /\ cnn.pc = "none"
    /\ \E w \in Parameters(Len(layer_sizes) - 1, FALSE) :
       \E b \in Parameters(Len(layer_sizes) - 1, TRUE) :
          cnn' = [cnn EXCEPT !.pc = "built", !.weights = w, !.biases = b]
    /\ UNCHANGED not_cnn

\* output = self.model.forward(X_batch)
call_forward ==
    /\ cnn.pc = "built"
    /\ \E batch_size \in 1..MaxBatch :
       \E X \in Matrices(batch_size, input_size, FeatureValues) :
       \E output \in forward(cnn.weights, cnn.biases, X) :
          cnn' = [cnn EXCEPT !.pc = "forward", !.X = X, !.output = output]
    /\ UNCHANGED not_cnn

\* gradients = self.model.backward(X_batch, y_batch, output)
call_backward ==
    /\ cnn.pc = "forward"
    /\ \E y \in [1..Len(cnn.X) -> OneHot] :
          cnn' = [cnn EXCEPT !.pc = "backward", !.y = y,
                             !.gradients = backward(cnn.weights, cnn.biases, cnn.X, y, cnn.output)]
    /\ UNCHANGED not_cnn

NextTinyCNN ==
    \/ TinyCNN_init
    \/ call_forward
    \/ call_backward

SpecTinyCNN == Init /\ [][NextTinyCNN]_vars

(***************************************************************************)
(* Part VI: claim.                                                         *)
(***************************************************************************)
\* the hidden layers
hidden == 1..(Len(layer_sizes) - 2)

\* the pre-activations of the hidden layers in the step made
Z == ndarray([n \in hidden |-> PreActivation(cnn.weights, cnn.biases, cnn.X, n)])

\* the dz the code used for each layer in the step made
UsedDelta ==
    ndarray([n \in layers |-> Delta(cnn.weights, subtract(cnn.output, cnn.y), n)])

SomeNegative ==
    \E z \in {Z} : \E n \in hidden : \E r \in 1..Len(z[n]) : \E c \in 1..Len(z[n][r]) :
        QLess(z[n][r][c], QInt(0))

AllPositive(z) ==
    \A n \in hidden : \A r \in 1..Len(z[n]) : \A c \in 1..Len(z[n][r]) :
        QLess(QInt(0), z[n][r][c])

\* the sum over the samples whose pre-activation z at unit c is not positive
\* of the dz the code used there
RECURSIVE MaskedOut(_, _, _, _)
MaskedOut(z, dz, c, r) ==
    IF r > Len(z) THEN QInt(0)
    ELSE QAdd(IF QLess(QInt(0), z[r][c]) THEN QInt(0) ELSE dz[r][c],
              MaskedOut(z, dz, c, r + 1))

Expected == TrueGradient(cnn.weights, cnn.biases, cnn.X, cnn.y, cnn.output)

\* C17 as stated: the output-layer gradients are the true ones and the
\* hidden-layer gradients differ from the true ones whenever a hidden
\* pre-activation of the batch is negative.
C17_WrongWheneverNegative ==
    cnn.pc = "backward" =>
        \A true \in {Expected} :
            /\ cnn.gradients[Len(layer_sizes) - 1] = true[Len(layer_sizes) - 1]
            /\ SomeNegative => \E n \in hidden : cnn.gradients[n] # true[n]

\* C17: backward uses the unmasked dz.  The output-layer gradients are the
\* true ones; the hidden-layer gradients are the true ones when every hidden
\* pre-activation is positive, and differ from them only if some hidden unit
\* has a non-positive pre-activation where the dz used is not 0; the bias
\* gradient of the last hidden layer is wrong exactly when, at some unit, the
\* dz of the samples with a non-positive pre-activation do not sum to 0.
C17_UnmaskedDelta ==
    cnn.pc = "backward" =>
        \A true \in {Expected} : \A z \in {Z} : \A dz \in {UsedDelta} :
            /\ cnn.gradients[Len(layer_sizes) - 1] = true[Len(layer_sizes) - 1]
            /\ AllPositive(z) => cnn.gradients = true
            /\ cnn.gradients # true =>
                  \E n \in hidden : \E r \in 1..Len(cnn.X) : \E c \in 1..layer_sizes[n + 1] :
                      /\ ~QLess(QInt(0), z[n][r][c])
                      /\ dz[n][r][c] # QInt(0)
            /\ \A n \in {Len(layer_sizes) - 2} :
                  cnn.gradients[n].biases # true[n].biases
                     <=> \E c \in 1..layer_sizes[n + 1] :
                            MaskedOut(z[n], dz[n], c, 1) # QInt(0)

\* a step in which a hidden pre-activation is negative and a hidden-layer
\* gradient is wrong, on a batch of more than one sample
C17_Witness ==
    /\ cnn.pc = "backward"
    /\ Len(cnn.X) > 1
    /\ SomeNegative
    /\ cnn.gradients # Expected

====
